---- MODULE Spec2Model ----
(***************************************************************************)
(* Motorcycle suspension rig builder: geometry solver, scene components,   *)
(* the Simulation orchestrator (component based) and the older             *)
(* physics.js / main.js application (bodies patched in place).             *)
(*                                                                         *)
(* Lengths are integers in centimetres (the code uses metres as floats):   *)
(* Vec2(0, 1) is (0, 100), the travel limit 0.15 is 15.  Trigonometry is   *)
(* exact: cos(acos(x)) = x and sin(acos(x)) = sqrt(1 - x^2), and the       *)
(* parameter sets of the rig are chosen so that the frame triangle and the *)
(* fork positions are whole numbers; elsewhere a root or a quotient that   *)
(* is not whole is rounded down.  A float NaN is a value with              *)
(* finite = FALSE.                                                         *)
(***************************************************************************)
EXTENDS Integers, Sequences, FiniteSets, TLC

VARIABLES
    bodies,      \* the physics world's body list: body id -> body
    joints,      \* the physics world's joint list (a set of joint records)
    nextId,      \* number of bodies created so far (body ids are 1..nextId)
    comps,       \* every SimulationComponent constructed: id -> component
    components,  \* Simulation.components, the top-level list
    mouseJoint,  \* Simulation.mouseJoint: Null or the joint record
    isRunning,   \* Simulation.isRunning
    moved,       \* world.step has run since the last createWorld
    calls,       \* number of createWorld calls made
    lastCall,    \* what the last createWorld call did (history)
    destroyLog,  \* bodies handed to world.destroyBody, when the last call was destroy()
    geo,         \* last geometry-solver call: input and outcome
    worldBodies, \* main.js: the named bodies of physics.js
    sliders,     \* main.js: the slider values, in millimetres
    edit,        \* main.js: the last slider, text or reset event (history)
    frame,       \* Simulation: the frame loop (callbacks pending, last frame)
    trace        \* what the last addChild, removeChild, update or draw did

vars == <<bodies, joints, nextId, comps, components, mouseJoint, isRunning,
          moved, calls, lastCall, destroyLog, geo, worldBodies, sliders, edit,
          frame, trace>>

Null == 0

(***************************************************************************)
(* Bounds of the model.                                                    *)
(***************************************************************************)
MaxCalls == 3

(***************************************************************************)
(* Numbers.                                                                *)
(***************************************************************************)
RECURSIVE IsqrtBetween(_, _, _)
IsqrtBetween(n, lo, hi) ==
    IF lo >= hi THEN lo
    ELSE LET mid == (lo + hi + 1) \div 2
         IN IF mid * mid <= n THEN IsqrtBetween(n, mid, hi)
                              ELSE IsqrtBetween(n, lo, mid - 1)

\* Math.sqrt on a perfect square (floor of the root otherwise); 46340 is the
\* largest root whose square is a 32-bit integer
Sqrt(n) == IF n <= 0 THEN 0 ELSE IsqrtBetween(n, 0, IF n > 46340 THEN 46340 ELSE n)

\* n / d for d # 0, exact on the inputs of the model
Div(n, d) == IF d < 0 THEN (0 - n) \div (0 - d) ELSE n \div d

Abs(n) == IF n < 0 THEN 0 - n ELSE n

RECURSIVE BitAnd(_, _)
\* JavaScript's x & y on non-negative integers
BitAnd(x, y) ==
    IF x = 0 \/ y = 0 THEN 0
    ELSE (x % 2) * (y % 2) + 2 * BitAnd(x \div 2, y \div 2)

(***************************************************************************)
(* Points.  finite = FALSE is a Vec2 holding NaN.                          *)
(***************************************************************************)
Vec2(x, y) == [x |-> x, y |-> y, finite |-> TRUE]
NaNVec == [x |-> 0, y |-> 0, finite |-> FALSE]

\* two coordinates compare equal in JavaScript (NaN equals nothing)
SamePoint(p, q) == p.finite /\ q.finite /\ p.x = q.x /\ p.y = q.y

distance(p1, p2) ==
    Sqrt((p2.x - p1.x) * (p2.x - p1.x) + (p2.y - p1.y) * (p2.y - p1.y))

(***************************************************************************)
(* Geometry solver.  A call returns [ok, error, value].                    *)
(***************************************************************************)
Threw(msg) == [ok |-> FALSE, error |-> msg, value |-> <<>>]
Returned(v) == [ok |-> TRUE, error |-> "", value |-> v]

InvalidTriangle == "Invalid triangle: each side must be less than the sum of the other two sides"

\* variant: a = b + c accepted
TriangleInequalityFails_FirstStrict(a, b, c) == a > b + c \/ b >= a + c \/ c >= a + b

TriangleInequalityFails(a, b, c) == a >= b + c \/ b >= a + c \/ c >= a + b

\* cosC = (a * a - b * b - c * c) / (-2 * b * c), as the fraction num / den
cosC(a, b, c) == [num |-> a * a - b * b - c * c, den |-> 0 - 2 * b * c]

triangleVertices(a, b, c) ==
    IF TriangleInequalityFails(a, b, c) THEN Threw(InvalidTriangle)
    ELSE LET num == cosC(a, b, c).num
             den == cosC(a, b, c).den
             sinNum == Sqrt(den * den - num * num)   \* sin(acos(cosC)) * |den|
             C == Vec2(0, 0)
             B == Vec2(0 - c, 0)
             A == Vec2(0 - Div(b * num, den), 0 - Div(b * sinNum, Abs(den)))
         IN Returned(<<C, B, A>>)

\* a side parameter {displayName, value, unit}; wellFormed = FALSE stands for a
\* side that is missing or lacks a numeric value or a string displayName
Side(name, value, unit) ==
    [displayName |-> name, value |-> value, unit |-> unit, wellFormed |-> TRUE]

BadSideAt(sides) ==
    IF ~sides[1].wellFormed THEN 0
    ELSE IF ~sides[2].wellFormed THEN 1
    ELSE IF ~sides[3].wellFormed THEN 2
    ELSE -1

\* variant: sideB is never examined
InvalidSideName_SkipsB(sideA, sideB, sideC) ==
    IF sideA.value >= sideB.value + sideC.value THEN sideA.displayName
    ELSE sideC.displayName

InvalidSideName(sideA, sideB, sideC) ==
    IF sideA.value >= sideB.value + sideC.value THEN sideA.displayName
    ELSE IF sideB.value >= sideA.value + sideC.value THEN sideB.displayName
    ELSE sideC.displayName

\* the message of the error thrown for an invalid triangle, by its parts
GeometryMessage(sideA, sideB, sideC) ==
    [kind |-> "Invalid geometry",
     tooLong |-> InvalidSideName(sideA, sideB, sideC),
     tooLongValue |-> sideA.value, tooLongUnit |-> sideA.unit,
     with1 |-> sideB.displayName, with1Value |-> sideB.value,
     with2 |-> sideC.displayName, with2Value |-> sideC.value]

triangleVerticesNamed(sideA, sideB, sideC) ==
    LET bad == BadSideAt(<<sideA, sideB, sideC>>)
    IN IF bad >= 0
       THEN [ok |-> FALSE, error |-> "Invalid side parameter", value |-> <<>>,
             position |-> bad, message |-> <<>>]
       ELSE LET r == triangleVertices(sideA.value, sideB.value, sideC.value)
            IN IF r.ok
               THEN [ok |-> TRUE, error |-> "", value |-> r.value,
                     position |-> -1, message |-> <<>>]
               ELSE [ok |-> FALSE, error |-> "Invalid geometry", value |-> <<>>,
                     position |-> -1,
                     message |-> <<GeometryMessage(sideA, sideB, sideC)>>]

\* a vertex argument that is null or undefined
MissingVertex == [x |-> 0, y |-> 0, finite |-> FALSE, missing |-> TRUE]
IsMissing(v) == "missing" \in DOMAIN v

\* cosA = (lengthB^2 - lengthA^2 - lengthC^2) / (-2 * lengthA * lengthC), as
\* the fraction num / den
cosA(lengthA, lengthB, lengthC) ==
    [num |-> lengthB * lengthB - lengthA * lengthA - lengthC * lengthC,
     den |-> 0 - 2 * lengthA * lengthC]

\* (Math.cos(edgeAngle - angleA), Math.sin(edgeAngle - angleA)) as the
\* fractions x / d and y / d; k is cosA
towardApex(vertexA, vertexB, lengthC, k) ==
    LET sgn == IF k.den < 0 THEN -1 ELSE 1
        sinNum == Sqrt(k.den * k.den - k.num * k.num)  \* sinA * |den|
        dx == vertexB.x - vertexA.x    \* cos(edgeAngle) * lengthC
        dy == vertexB.y - vertexA.y    \* sin(edgeAngle) * lengthC
    IN \* cos(e - A) = cos e cos A + sin e sin A
       [x |-> dx * sgn * k.num + dy * sinNum,
        \* sin(e - A) = sin e cos A - cos e sin A
        y |-> dy * sgn * k.num - dx * sinNum,
        d |-> lengthC * Abs(k.den)]

triangleFromVerticesAndEdges(vertexA, vertexB, lengthA, lengthB) ==
    IF IsMissing(vertexA) \/ IsMissing(vertexB)
    THEN Threw("Invalid input: vertexA and vertexB must be points")
    ELSE IF lengthA <= 0 \/ lengthB <= 0
    THEN Threw("Invalid input: edge lengths must be positive")
    ELSE IF ~vertexA.finite \/ ~vertexB.finite
    THEN Returned(<<NaNVec>>)      \* every comparison with NaN is false
    ELSE LET lengthC == distance(vertexA, vertexB)
         IN IF TriangleInequalityFails(lengthA, lengthB, lengthC)
            THEN Threw(InvalidTriangle)
            ELSE LET dir == towardApex(vertexA, vertexB, lengthC,
                                       cosA(lengthA, lengthB, lengthC))
                 IN Returned(<<Vec2(vertexA.x + Div(lengthA * dir.x, dir.d),
                                    vertexA.y + Div(lengthA * dir.y, dir.d))>>)

(***************************************************************************)
(* Parameter sets.  shape = "empty" is the object {} (no frame and no      *)
(* simulation group).                                                      *)
(***************************************************************************)
MkParams(shape, head, toTop, toBottom, top, bottom, swing, shockTop, shockPivot) ==
    [shape |-> shape,
     frame |->
       [headTubeLength |-> head,
        swingArmPivotToHeadTubeTopCenter |->
            Side("Swing Arm Pivot to Head Tube Top Center", toTop, "m"),
        swingArmPivotToHeadTubeBottomCenter |->
            Side("Swing Arm Pivot to Head Tube Bottom Center", toBottom, "m"),
        topForkTubeLength |-> top,
        bottomForkTubeLength |-> bottom,
        swingarmLength |-> swing,
        rearShockUpperPivotToHeadTubeTop |-> shockTop,
        rearShockUpperPivotToFramePivot |-> shockPivot,
        frontWheelDiameter |-> 60,
        rearWheelDiameter |-> 60],
     simulation |->
       [groundWidth |-> 200, groundHeight |-> 10, density |-> 1,
        forkSpringFrequency |-> 4, forkSpringDamping |-> 7]]

HeadTube(v) == Side("Head Tube Length", v, "m")
BadHeadTube == [displayName |-> "", value |-> 0, unit |-> "m", wellFormed |-> FALSE]

ParamSets ==
    << MkParams("full", HeadTube(50), 50, 60, 30, 30, 50, 40, 30),   \* valid
       MkParams("full", HeadTube(50), 50, 60, 10, 10, 40, 40, 30),   \* valid, fork shorter than head tube
       MkParams("full", HeadTube(75), 65, 70, 40, 50, 50, 60, 30),   \* valid
       MkParams("full", HeadTube(120), 50, 60, 30, 30, 50, 40, 30),  \* frame triangle violated
       MkParams("full", HeadTube(50), 50, 60, 30, 30, 50, 10, 40),   \* shock triangle violated (equality)
       MkParams("full", BadHeadTube, 50, 60, 30, 30, 50, 40, 30),    \* malformed side
       MkParams("empty", HeadTube(50), 50, 60, 30, 30, 50, 40, 30) >> \* {}

ParamIds == 1..Len(ParamSets)

(***************************************************************************)
(* The physics world (planck): bodies, fixtures, joints.                   *)
(***************************************************************************)
CATEGORIES == [FRAME |-> 1, GROUND |-> 2, WHEEL |-> 4]

\* an angle is kept as its cosine and sine, cos = c / d and sin = s / d
Angle(c, s, d) == [c |-> c, s |-> s, d |-> d, finite |-> TRUE]
Angle0 == Angle(1, 0, 1)
NaNAngle == [c |-> 0, s |-> 0, d |-> 1, finite |-> FALSE]

\* world.createBody({type, linearDamping, angularDamping}): at the origin, angle 0
NewBody(type) ==
    [type |-> type, pos |-> Vec2(0, 0), angle |-> Angle0, fixtures |-> <<>>]

Fixture(shape, friction, category, mask, color) ==
    [shape |-> shape, friction |-> friction, filterCategoryBits |-> category,
     filterMaskBits |-> mask, color |-> color]

\* a world is [bodies, joints, nextId, comps]
World(b, j, n, c) == [bodies |-> b, joints |-> j, nextId |-> n, comps |-> c]

\* body.createFixture(shape, def)
createFixture(W, id, fx) ==
    [W EXCEPT !.bodies[id].fixtures = Append(@, fx)]

\* body.getWorldPoint(local)
WorldPoint(body, local) ==
    IF ~body.pos.finite \/ ~body.angle.finite \/ ~local.finite THEN NaNVec
    ELSE Vec2(body.pos.x + Div(body.angle.c * local.x - body.angle.s * local.y, body.angle.d),
              body.pos.y + Div(body.angle.s * local.x + body.angle.c * local.y, body.angle.d))

JointBase(type, bodyA, bodyB, localAnchorA, localAnchorB) ==
    [type |-> type, bodyA |-> bodyA, bodyB |-> bodyB,
     localAnchorA |-> localAnchorA, localAnchorB |-> localAnchorB,
     enableLimit |-> FALSE, lowerTranslation |-> 0, upperTranslation |-> 0,
     enableMotor |-> FALSE, length |-> 0, frequencyHz |-> 0, dampingRatio |-> 0,
     localAxisA |-> NaNVec, target |-> NaNVec]

\* world.createJoint(joint)
createJoint(W, j) == [W EXCEPT !.joints = @ \cup {j}]

\* world.destroyBody(body): the body leaves the world together with its
\* fixtures and every joint attached to it
destroyBody(W, id) ==
    [W EXCEPT !.bodies = [b \in (DOMAIN W.bodies) \ {id} |-> W.bodies[b]],
              !.joints = {j \in W.joints : j.bodyA # id /\ j.bodyB # id}]

(***************************************************************************)
(* SimulationComponent.                                                    *)
(***************************************************************************)
\* new SimulationComponent(simulation, {type}): the component takes the id of
\* the body it creates
NewComponentAs(W, id, kind, type) ==
    [W EXCEPT !.nextId = id,
              !.bodies = [b \in (DOMAIN W.bodies) \cup {id} |->
                            IF b = id THEN NewBody(type) ELSE W.bodies[b]],
              !.comps = [c \in (DOMAIN W.comps) \cup {id} |->
                            IF c = id
                            THEN [kind |-> kind, body |-> id, children |-> <<>>]
                            ELSE W.comps[c]]]

NewComponent(W, kind, type) == NewComponentAs(W, W.nextId + 1, kind, type)

addChild(W, parent, child) ==
    [W EXCEPT !.comps[parent].children = Append(@, child)]

\* child instanceof SimulationComponent
IsComponent(W, child) == child \in DOMAIN W.comps

\* addChild(child) with its check: [ok, W]; ok = FALSE when it threw
tryAddChild(W, parent, child) ==
    IF IsComponent(W, child) THEN [ok |-> TRUE, W |-> addChild(W, parent, child)]
    ELSE [ok |-> FALSE, W |-> W]

\* variant: the first child is spliced out, whichever child was named
WithoutFirst_DropsHead(seq, x) ==
    IF seq = <<>> THEN <<>> ELSE Tail(seq)

RECURSIVE WithoutFirst(_, _)
\* children.splice(children.indexOf(child), 1)
WithoutFirst(seq, x) ==
    IF seq = <<>> THEN <<>>
    ELSE IF Head(seq) = x THEN Tail(seq)
    ELSE <<Head(seq)>> \o WithoutFirst(Tail(seq), x)

removeChild(W, parent, child) ==
    [W EXCEPT !.comps[parent].children = WithoutFirst(@, child)]

\* set position / set angle
setPosition(W, id, pos) == [W EXCEPT !.bodies[id].pos = pos]
setAngle(W, id, angle) == [W EXCEPT !.bodies[id].angle = angle]

RECURSIVE update(_, _, _)
RECURSIVE updateAll(_, _, _)
\* variant: the children are updated before the component itself
update_ChildrenFirst(cs, params, c) ==
    updateAll(cs, params, cs[c].children) \o <<[comp |-> c, params |-> params]>>

\* update(params) on component c: the updateImpl calls it makes, in order
update(cs, params, c) ==
    <<[comp |-> c, params |-> params]>> \o updateAll(cs, params, cs[c].children)

\* children.forEach(child => child.update(params))
updateAll(cs, params, kids) ==
    IF kids = <<>> THEN <<>>
    ELSE update(cs, params, Head(kids)) \o updateAll(cs, params, Tail(kids))

\* the canvas context: the current transform, as the list of the transforms
\* applied one after another, and the stack of saved transforms
Ctx(transform, stack) == [transform |-> transform, stack |-> stack]

\* ctx.save()
save(ctx) == [ctx EXCEPT !.stack = Append(@, ctx.transform)]

\* variant: restore() pops the stack and leaves the transform as it is
restore_KeepsTransform(ctx) ==
    IF ctx.stack = <<>> THEN ctx
    ELSE [ctx EXCEPT !.stack = SubSeq(@, 1, Len(@) - 1)]

\* ctx.restore()
restore(ctx) ==
    IF ctx.stack = <<>> THEN ctx
    ELSE Ctx(ctx.stack[Len(ctx.stack)], SubSeq(ctx.stack, 1, Len(ctx.stack) - 1))

\* ctx.translate(pos.x, pos.y); ctx.rotate(angle), pos and angle read from body
transformOf(W, body) ==
    [body |-> body, pos |-> W.bodies[body].pos, angle |-> W.bodies[body].angle]

\* translate and rotate on top of the current transform
transformed(ctx, t) == [ctx EXCEPT !.transform = Append(@, t)]

\* drawImpl(ctx): the component and the transform it draws under
drawImpl(d, c) == [d EXCEPT !.calls = Append(@, [comp |-> c, transform |-> d.ctx.transform])]

\* draw() up to its restore: save, translate, rotate, drawImpl, restore
drawOwn(W, d, c) ==
    [drawImpl([d EXCEPT !.ctx = transformed(save(d.ctx), transformOf(W, W.comps[c].body))], c)
     EXCEPT !.ctx = restore(@)]

RECURSIVE draw(_, _, _)
RECURSIVE drawAll(_, _, _)
\* draw(ctx) on component c; d is [ok, ctx, calls].  A component without a
\* body throws at this.position, after ctx.save()
draw(W, d, c) ==
    IF ~d.ok THEN d
    ELSE IF W.comps[c].body = Null THEN [d EXCEPT !.ok = FALSE, !.ctx = save(d.ctx)]
    ELSE drawAll(W, drawOwn(W, d, c), W.comps[c].children)

\* children.forEach(child => child.draw(ctx))
drawAll(W, d, kids) ==
    IF kids = <<>> THEN d
    ELSE drawAll(W, draw(W, d, Head(kids)), Tail(kids))

RECURSIVE destroyAll(_, _, _)
\* variant: the component keeps the reference to its destroyed body
destroyOwn_KeepsBody(kids, c, body) ==
    IF body # Null
    THEN [W |-> [destroyBody(kids.W, body) EXCEPT !.comps[c].children = <<>>],
          log |-> Append(kids.log, body)]
    ELSE [W |-> [kids.W EXCEPT !.comps[c].children = <<>>], log |-> kids.log]

\* the tail of destroy(): this.children = [], then the body is destroyed if
\* there is one.  kids is the world and the log after the children's destroy().
destroyOwn(kids, c, body) ==
    IF body # Null
    THEN [W |-> [destroyBody(kids.W, body)
                 EXCEPT !.comps[c].children = <<>>, !.comps[c].body = Null],
          log |-> Append(kids.log, body)]
    ELSE [W |-> [kids.W EXCEPT !.comps[c].children = <<>>], log |-> kids.log]

\* the rest of children.forEach after the first child
destroyRest(first, rest) == destroyAll(first.W, first.log, rest)

\* variant: the component's own body first, its children after it
destroy_ParentFirst(W, log, c) ==
    destroyRest(destroyOwn([W |-> W, log |-> log], c, W.comps[c].body),
                W.comps[c].children)

\* destroy() on component c: children first, then itself.  The result is the
\* world after it and the bodies handed to world.destroyBody, in order.
destroy(W, log, c) ==
    destroyOwn(destroyAll(W, log, W.comps[c].children), c, W.comps[c].body)

\* children.forEach(child => child.destroy())
destroyAll(W, log, cs) ==
    IF cs = <<>> THEN [W |-> W, log |-> log]
    ELSE destroyRest(destroy(W, log, Head(cs)), Tail(cs))

(***************************************************************************)
(* GroundComponent.                                                        *)
(***************************************************************************)
\* variant: the ground's mask names the wheels only
groundFixture_WheelsOnly(W) ==
    createFixture(W, W.nextId,
        Fixture("box", 3, CATEGORIES.GROUND, CATEGORIES.WHEEL, "#333333"))

groundFixture(W) ==
    createFixture(W, W.nextId,
        Fixture("box", 3, CATEGORIES.GROUND,
                CATEGORIES.WHEEL + CATEGORIES.FRAME, "#333333"))

\* new GroundComponent(simulation, {width, height, density})
GroundComponent(W) == groundFixture(NewComponent(W, "ground", "static"))

(***************************************************************************)
(* MotorcycleComponent.                                                    *)
(***************************************************************************)
UpperTranslation == 15

\* Vec2.normalize() of planck: the receiver becomes the unit vector
\* (x / d, y / d), and the call returns the old length, a number
normalize(v) ==
    LET len == Sqrt(v.x * v.x + v.y * v.y)
    IN [vec |-> [x |-> v.x, y |-> v.y, d |-> len, finite |-> TRUE], ret |-> len]

\* the x and y of a value that is a number: both undefined, NaN in arithmetic
ComponentsOfNumber(n) == [x |-> 0, y |-> 0, d |-> 1, finite |-> FALSE]

\* Math.atan2(axis.y, axis.x) - Math.PI/2
ForkAngle(axis) ==
    IF axis.finite THEN Angle(axis.y, 0 - axis.x, axis.d) ELSE NaNAngle

\* Vec2(p.x - axis.x * len, p.y - axis.y * len)
Along(p, axis, len) ==
    IF ~p.finite \/ ~axis.finite THEN NaNVec
    ELSE Vec2(p.x - Div(axis.x * len, axis.d), p.y - Div(axis.y * len, axis.d))

FrameTriangle(params) ==
    triangleVerticesNamed(params.frame.headTubeLength,
                          params.frame.swingArmPivotToHeadTubeTopCenter,
                          params.frame.swingArmPivotToHeadTubeBottomCenter)

\* the children in the order of the addChild calls
bottomForkOf(W, id) == W.comps[id].children[1]
frontWheelOf(W, id) == W.comps[id].children[2]
swingarmOf(W, id) == W.comps[id].children[3]
rearWheelOf(W, id) == W.comps[id].children[4]

\* the seven createFixture calls of createFixtures()
rigFixtures(W, id) ==
    createFixture(createFixture(createFixture(createFixture(createFixture(
    createFixture(createFixture(W,
        id, Fixture("polygon", 3, CATEGORIES.FRAME, CATEGORIES.GROUND, "#333333")),
        id, Fixture("polygon", 3, CATEGORIES.FRAME, CATEGORIES.GROUND, "#666666")),
        id, Fixture("polygon", 3, CATEGORIES.FRAME, CATEGORIES.GROUND, "#4169E1")),
        bottomForkOf(W, id),
            Fixture("polygon", 3, CATEGORIES.FRAME, CATEGORIES.GROUND, "#3CB371")),
        frontWheelOf(W, id),
            Fixture("circle", 7, CATEGORIES.WHEEL, CATEGORIES.GROUND, "#333333")),
        rearWheelOf(W, id),
            Fixture("circle", 7, CATEGORIES.WHEEL, CATEGORIES.GROUND, "#333333")),
        swingarmOf(W, id),
            Fixture("polygon", 3, CATEGORIES.FRAME, CATEGORIES.GROUND, "#333333"))

\* createFixtures() once the frame triangle is known: the rear shock pivot,
\* then the fixtures
fixturesFrom(W, id, params, frameVertices) ==
    IF ~triangleFromVerticesAndEdges(frameVertices[3], frameVertices[1],
            params.frame.rearShockUpperPivotToHeadTubeTop,
            params.frame.rearShockUpperPivotToFramePivot).ok
    THEN [ok |-> FALSE, W |-> W]
    ELSE [ok |-> TRUE, W |-> rigFixtures(W, id)]

\* createFixtures(): [ok, W]; ok = FALSE when the geometry solver threw
createFixtures(W, id, params) ==
    IF ~FrameTriangle(params).ok THEN [ok |-> FALSE, W |-> W]
    ELSE fixturesFrom(W, id, params, FrameTriangle(params).value)

\* variant: the head tube added instead of subtracted
springRestLength_HeadAdded(params) ==
    params.frame.bottomForkTubeLength + params.frame.topForkTubeLength
        + params.frame.headTubeLength.value

springRestLength(params) ==
    params.frame.bottomForkTubeLength + params.frame.topForkTubeLength
        - params.frame.headTubeLength.value

\* relative to the swing arm pivot
Local(p, swingArmPivot) ==
    IF p.finite THEN Vec2(p.x - swingArmPivot.x, p.y - swingArmPivot.y) ELSE NaNVec

\* variant: the fork slider is driven by a motor and has no limits
prismaticJoint_Motor(W, id, params, swingArmPivot, headTubeTop, axis) ==
    [JointBase("prismatic-joint", id, bottomForkOf(W, id),
         Local(Along(headTubeTop, axis, params.frame.topForkTubeLength), swingArmPivot),
         Vec2(0, 0))
     EXCEPT !.enableMotor = TRUE,
            !.localAxisA = IF axis.finite THEN Vec2(axis.x, axis.y) ELSE NaNVec]

prismaticJoint(W, id, params, swingArmPivot, headTubeTop, axis) ==
    [JointBase("prismatic-joint", id, bottomForkOf(W, id),
         Local(Along(headTubeTop, axis, params.frame.topForkTubeLength), swingArmPivot),
         Vec2(0, 0))
     EXCEPT !.enableLimit = TRUE, !.lowerTranslation = 0,
            !.upperTranslation = UpperTranslation, !.enableMotor = FALSE,
            !.localAxisA = IF axis.finite THEN Vec2(axis.x, axis.y) ELSE NaNVec]

distanceJoint(W, id, params, swingArmPivot, headTubeBottom) ==
    [JointBase("distance-joint", id, bottomForkOf(W, id),
         Local(headTubeBottom, swingArmPivot),
         Vec2(0, 0 - params.frame.bottomForkTubeLength))
     EXCEPT !.length = springRestLength(params),
            !.frequencyHz = params.simulation.forkSpringFrequency,
            !.dampingRatio = params.simulation.forkSpringDamping]

frontWheelJoint(W, id, params) ==
    JointBase("revolute-joint", bottomForkOf(W, id), frontWheelOf(W, id),
              Vec2(0, 0 - params.frame.bottomForkTubeLength), Vec2(0, 0))

swingarmJoint(W, id) ==
    JointBase("revolute-joint", id, swingarmOf(W, id), Vec2(0, 0), Vec2(0, 0))

rearWheelJoint(W, id, params) ==
    JointBase("revolute-joint", swingarmOf(W, id), rearWheelOf(W, id),
              Vec2(params.frame.swingarmLength, 0), Vec2(0, 0))

\* "Position components": the bottom fork and the front wheel are placed; the
\* swingarm and the rear wheel stay where createBody put them
positionComponents(W, id, params, headTubeTop, axis) ==
    setPosition(
        setAngle(
            setPosition(W, bottomForkOf(W, id),
                        Along(headTubeTop, axis, params.frame.topForkTubeLength)),
            bottomForkOf(W, id), ForkAngle(axis)),
        frontWheelOf(W, id),
        Along(Along(headTubeTop, axis, params.frame.topForkTubeLength),
              axis, params.frame.bottomForkTubeLength))

\* createJoints() once the frame triangle and the fork axis are known
jointsFrom(W, id, params, swingArmPivot, headTubeBottom, headTubeTop, axis) ==
    createJoint(createJoint(createJoint(createJoint(createJoint(
        positionComponents(W, id, params, headTubeTop, axis),
        prismaticJoint(W, id, params, swingArmPivot, headTubeTop, axis)),
        distanceJoint(W, id, params, swingArmPivot, headTubeBottom)),
        frontWheelJoint(W, id, params)),
        swingarmJoint(W, id)),
        rearWheelJoint(W, id, params))

\* const forkAxis = Vec2(headTubeTop - headTubeBottom).normalize(): forkAxis is
\* what normalize() returns, the length, and forkAxis.x, forkAxis.y are read
\* from that number
forkAxisOfJoints(headTubeBottom, headTubeTop) ==
    ComponentsOfNumber(normalize(Vec2(headTubeTop.x - headTubeBottom.x,
                                      headTubeTop.y - headTubeBottom.y)).ret)

jointsOn(W, id, params, frameVertices) ==
    jointsFrom(W, id, params, frameVertices[1], frameVertices[2], frameVertices[3],
               forkAxisOfJoints(frameVertices[2], frameVertices[3]))

\* createJoints(), called after createFixtures() returned
createJoints(W, id, params) ==
    jointsOn(W, id, params, FrameTriangle(params).value)

\* the constructor after its super() call: four children, addChild x 4
withChildren(W, id) ==
    addChild(addChild(addChild(addChild(
        NewComponent(NewComponent(NewComponent(NewComponent(W,
            "bottomFork", "dynamic"), "frontWheel", "dynamic"),
            "swingarm", "dynamic"), "rearWheel", "dynamic"),
        id, id + 1), id, id + 2), id, id + 3), id, id + 4)

fixturesAndJoints(fx, W, id, params) ==
    IF ~fx.ok THEN [ok |-> FALSE, W |-> W, id |-> id]
    ELSE [ok |-> TRUE, W |-> createJoints(fx.W, id, params), id |-> id]

built(W, id, params) ==
    IF params.shape = "empty" THEN [ok |-> FALSE, W |-> W, id |-> id]
    ELSE fixturesAndJoints(createFixtures(W, id, params), W, id, params)

\* new MotorcycleComponent(simulation, params): [ok, W, id]; ok = FALSE when
\* createFixtures() threw
MotorcycleComponent(W, params) ==
    built(withChildren(NewComponent(W, "motorcycle", "dynamic"), W.nextId + 1),
          W.nextId + 1, params)

(***************************************************************************)
(* Simulation.                                                             *)
(***************************************************************************)
GroundY == 100

\* createWorld after "new MotorcycleComponent": position it and push it
withMotorcycle(M, ground) ==
    IF ~M.ok
    THEN [ok |-> FALSE, W |-> M.W, components |-> <<ground>>]
    ELSE [ok |-> TRUE, W |-> setPosition(M.W, M.id, Vec2(0, 0)),
          components |-> <<ground, M.id>>]

\* variant: the ground left where its body was created
withGround_AtOrigin(G, params) ==
    withMotorcycle(MotorcycleComponent(G, params), G.nextId)

\* createWorld after "new GroundComponent": position it, push it, build the rig
withGround(G, params) ==
    withMotorcycle(MotorcycleComponent(setPosition(G, G.nextId, Vec2(0, GroundY)),
                                       params),
                   G.nextId)

\* createWorld after the old components are destroyed
rebuild(cleared, params) ==
    IF params.shape = "empty"
    THEN \* params.simulation.groundWidth: TypeError, nothing built yet
         [ok |-> FALSE, W |-> cleared, components |-> <<>>]
    ELSE withGround(GroundComponent(cleared), params)

\* variant: the components of the previous world are not destroyed
createWorld_KeepsOld(W, cs, params) == rebuild(W, params)

\* Simulation.createWorld(params): [ok, W, components]
createWorld(W, cs, params) ==
    rebuild(destroyAll(W, <<>>, cs).W, params)

MouseBody == 1

\* the points the pointer can be at
Pointers == {Vec2(0, 0), Vec2(10, 10)}

TheWorld == World(bodies, joints, nextId, comps)

NoCall == [params |-> 0, ok |-> FALSE, prev |-> <<>>, rig |-> {},
           prevParams |-> 0, prevOk |-> FALSE,
           counts |-> [bodies |-> 0, fixtures |-> 0, joints |-> 0, components |-> 0]]

RECURSIVE SumFixtures(_, _)
SumFixtures(bs, ids) ==
    IF ids = {} THEN 0
    ELSE LET b == CHOOSE x \in ids : TRUE
         IN Len(bs[b].fixtures) + SumFixtures(bs, ids \ {b})

\* what getBodyCount(), the fixture lists, getJointCount() and
\* components.length report
Counts(W, cs) ==
    [bodies |-> Cardinality(DOMAIN W.bodies),
     fixtures |-> SumFixtures(W.bodies, DOMAIN W.bodies),
     joints |-> Cardinality(W.joints),
     components |-> Len(cs)]

\* state of the other parts of the repository, idle in this specification
NoDestroy == [root |-> Null, log |-> <<>>, wasTree |-> TRUE, height |-> 0]
\* the context a component tree is drawn in: Simulation.draw has saved the
\* identity transform and applied the view transform
ViewTransform == [body |-> Null, pos |-> Vec2(0, 0), angle |-> Angle0]
EntryCtx == Ctx(<<ViewTransform>>, << <<>> >>)

Traced(op, root, arg, ok, made, ctx) ==
    [op |-> op, root |-> root, arg |-> arg, ok |-> ok, calls |-> made, ctx |-> ctx]
NoTrace == Traced("none", Null, Null, TRUE, <<>>, EntryCtx)
IdleTree == destroyLog = NoDestroy /\ trace = NoTrace
NoGeo == [fn |-> "none", args |-> <<>>, result |-> Returned(<<>>)]
IdleGeo == geo = NoGeo
NoEdit == [kind |-> "none", ok |-> TRUE, tick |-> 0, resets |-> 0]
IdleMain == worldBodies = <<>> /\ sliders = <<>> /\ edit = NoEdit

NoFrame == [pending |-> 0, did |-> <<>>, running |-> FALSE]

IdleSim ==
    /\ components = <<>> /\ mouseJoint = <<>> /\ isRunning = FALSE
    /\ moved = FALSE /\ calls = 0 /\ lastCall = NoCall /\ frame = NoFrame

\* variant: the world is stepped whether the simulation runs or not
step_AlwaysSteps(running, fr) ==
    [fr EXCEPT !.pending = @ + 1, !.did = <<"world.step", "draw">>]

\* Simulation.step(): world.step(1/60) when running, then draw(), then one
\* requestAnimationFrame; did lists the calls made, in order
step(running, fr) ==
    [fr EXCEPT !.pending = @ + 1,
               !.did = (IF running THEN <<"world.step">> ELSE <<>>) \o <<"draw">>]

\* a call of step(): the browser has taken the callback that made it, if any,
\* off its list; running notes what isRunning was (history)
Frame(running, fr, callbacks) ==
    [step(running, [fr EXCEPT !.pending = @ - callbacks]) EXCEPT !.running = running]

\* new Simulation(canvasContainer, canvasSize): init() creates the world and
\* the static body the pointer joint hangs on, and calls step() once
Init ==
    /\ bodies = (MouseBody :> NewBody("static"))
    /\ joints = {}
    /\ nextId = MouseBody
    /\ comps = <<>>
    /\ components = <<>>
    /\ mouseJoint = <<>>
    /\ isRunning = FALSE
    /\ moved = FALSE
    /\ calls = 0
    /\ lastCall = NoCall
    /\ frame = Frame(FALSE, NoFrame, 0)
    /\ IdleTree /\ IdleGeo /\ IdleMain

\* the state after a createWorld call that returned r
Called(i, r) ==
    /\ bodies' = r.W.bodies
    /\ joints' = r.W.joints
    /\ nextId' = r.W.nextId
    /\ comps' = r.W.comps
    /\ components' = r.components
    /\ lastCall' = [params |-> i, ok |-> r.ok, prev |-> components,
                    prevParams |-> lastCall.params, prevOk |-> lastCall.ok,
                    rig |-> IF r.components = <<>> THEN {}
                            ELSE (r.components[1] + 1)..r.W.nextId,
                    counts |-> Counts(r.W, r.components)]

CreateWorld(i) ==
    /\ calls < MaxCalls
    /\ Called(i, createWorld(TheWorld, components, ParamSets[i]))
    /\ calls' = calls + 1
    /\ moved' = FALSE
    /\ UNCHANGED <<mouseJoint, isRunning, destroyLog, geo, worldBodies, sliders, edit, frame, trace>>

\* the bodies world.queryAABB can report: those with a fixture
Clickable == {b \in DOMAIN bodies : bodies[b].fixtures # <<>> /\ bodies[b].type = "dynamic"}

\* variant: a press grabs the body under the pointer even while a pointer
\* joint exists
MouseDown_GrabsAgain(clicked, p) ==
    /\ IF clicked = Null
       THEN UNCHANGED <<joints, mouseJoint>>
       ELSE LET j == [JointBase("mouse-joint", MouseBody, clicked, p, p)
                      EXCEPT !.target = p, !.frequencyHz = 2]
            IN /\ joints' = joints \cup {j}
               /\ mouseJoint' = <<j>>
    /\ UNCHANGED <<bodies, nextId, comps, components, isRunning, moved, calls,
                   lastCall, destroyLog, geo, worldBodies, sliders, edit, frame, trace>>

\* mousedown; clicked is the dynamic body under the pointer, Null when none
MouseDown(clicked, p) ==
    /\ IF mouseJoint # <<>> \/ clicked = Null
       THEN UNCHANGED <<joints, mouseJoint>>
       ELSE LET j == [JointBase("mouse-joint", MouseBody, clicked, p, p)
                      EXCEPT !.target = p, !.frequencyHz = 2]
            IN /\ joints' = joints \cup {j}
               /\ mouseJoint' = <<j>>
    /\ UNCHANGED <<bodies, nextId, comps, components, isRunning, moved, calls,
                   lastCall, destroyLog, geo, worldBodies, sliders, edit, frame, trace>>

\* mousemove
MouseMove(p) ==
    /\ IF mouseJoint = <<>>
       THEN UNCHANGED <<joints, mouseJoint>>
       ELSE LET j == mouseJoint[1]
                j2 == [j EXCEPT !.target = p]
            IN /\ mouseJoint' = <<j2>>
               /\ joints' = IF j \in joints THEN (joints \ {j}) \cup {j2} ELSE joints
    /\ UNCHANGED <<bodies, nextId, comps, components, isRunning, moved, calls,
                   lastCall, destroyLog, geo, worldBodies, sliders, edit, frame, trace>>

\* mouseup
MouseUp ==
    /\ IF mouseJoint = <<>>
       THEN UNCHANGED <<joints, mouseJoint>>
       ELSE /\ joints' = joints \ {mouseJoint[1]}
            /\ mouseJoint' = <<>>
    /\ UNCHANGED <<bodies, nextId, comps, components, isRunning, moved, calls,
                   lastCall, destroyLog, geo, worldBodies, sliders, edit, frame, trace>>

\* one animation frame: the browser runs a pending callback, which calls
\* step().  The engine moves the dynamic bodies; pos and angle then no longer
\* describe them.
Step ==
    /\ frame.pending > 0
    /\ frame' = Frame(isRunning, frame, 1)
    /\ moved' = (moved \/ (isRunning /\ components # <<>>))
    /\ UNCHANGED <<bodies, joints, nextId, comps, components, mouseJoint, isRunning,
                   calls, lastCall, destroyLog, geo, worldBodies, sliders, edit, trace>>

SetRunning(running) ==
    /\ isRunning' = running
    /\ UNCHANGED <<bodies, joints, nextId, comps, components, mouseJoint, moved,
                   calls, lastCall, destroyLog, geo, worldBodies, sliders, edit, frame, trace>>

Next ==
    \/ \E i \in ParamIds : CreateWorld(i)
    \/ \E c \in Clickable \cup {Null}, p \in Pointers : MouseDown(c, p)
    \/ \E p \in Pointers : MouseMove(p)
    \/ MouseUp
    \/ Step
    \/ \E r \in BOOLEAN : SetRunning(r)

Spec == Init /\ [][Next]_vars

(***************************************************************************)
(* Properties of the Simulation (specification Spec).                      *)
(***************************************************************************)
\* the joints of the rig
RigJoints == {j \in joints : j.type # "mouse-joint"}

\* joint.getAnchorA() and joint.getAnchorB(): the anchors in world space
AnchorA(j) == WorldPoint(bodies[j.bodyA], j.localAnchorA)
AnchorB(j) == WorldPoint(bodies[j.bodyB], j.localAnchorB)

\* the last createWorld call built a rig and the engine has not moved it
AsConstructed == calls > 0 /\ lastCall.ok /\ ~moved

LastParams == ParamSets[lastCall.params]

\* C1: right after construction every joint of the rig has its two anchors at
\* the same world position.
C1_AnchorsCoincide ==
    AsConstructed => \A j \in RigJoints : SamePoint(AnchorA(j), AnchorB(j))

\* C2: when construction throws, no body created for the failed rig is left
\* in the world.
C2_NothingLeftAfterThrow ==
    (calls > 0 /\ ~lastCall.ok) => \A b \in lastCall.rig : b \notin DOMAIN bodies

\* C3: a createWorld call that throws leaves the component list and every
\* body, fixture and joint as they were.
C3_FailedCallChangesNothing ==
    [][(calls' = calls + 1 /\ ~lastCall'.ok)
         => (components' = components /\ bodies' = bodies /\ joints' = joints)]_vars

\* C5: the distance joint between the frame and the bottom fork has rest
\* length bottomForkTubeLength + topForkTubeLength - headTubeLength.
C5_SpringRestLength ==
    (calls > 0 /\ lastCall.ok) =>
        /\ \E j \in joints :
              /\ j.type = "distance-joint"
              /\ j.bodyA = components[2]
              /\ j.bodyB = comps[components[2]].children[1]
        /\ \A j \in joints :
              j.type = "distance-joint" =>
                  j.length = LastParams.frame.bottomForkTubeLength
                             + LastParams.frame.topForkTubeLength
                             - LastParams.frame.headTubeLength.value

C5_Witness ==
    /\ calls > 0 /\ lastCall.ok
    /\ \E j \in joints : j.type = "distance-joint" /\ j.length = 10

\* C7: a createWorld call that repeats the params of the successful call
\* before it leaves the same numbers of bodies, fixtures, joints and
\* components (2), and no body of the earlier ground and rig.
C7_RebuildIdempotent ==
    [][(calls' = calls + 1 /\ lastCall.ok /\ lastCall'.ok
          /\ lastCall'.params = lastCall.params)
         => /\ lastCall'.counts = lastCall.counts
            /\ lastCall'.counts.components = 2
            /\ \A b \in lastCall.rig : b \notin DOMAIN bodies'
            /\ \A i \in DOMAIN components : components[i] \notin DOMAIN bodies']_vars

C7_Witness ==
    /\ calls >= 2 /\ lastCall.ok /\ lastCall.prevOk
    /\ lastCall.prevParams = lastCall.params
    /\ lastCall.counts.joints = 5

\* C9: collision filtering.  Fixtures X and Y collide iff
\* (X.mask & Y.category) # 0 and (Y.mask & X.category) # 0.
Collide(X, Y) ==
    /\ BitAnd(X.filterMaskBits, Y.filterCategoryBits) # 0
    /\ BitAnd(Y.filterMaskBits, X.filterCategoryBits) # 0

\* the fixtures of the bodies owned by components of the given kinds
FixturesOf(kinds) ==
    UNION {{bodies[b].fixtures[i] : i \in DOMAIN bodies[b].fixtures} :
             b \in {c \in DOMAIN bodies \cap DOMAIN comps : comps[c].kind \in kinds}}

FrameFixtures == FixturesOf({"motorcycle", "bottomFork", "swingarm"})
WheelFixtures == FixturesOf({"frontWheel", "rearWheel"})
GroundFixtures == FixturesOf({"ground"})

\* C9: frame, fork and swingarm fixtures share one category and never collide
\* with each other; wheels have another category and collide with the ground
\* only; frame-category fixtures never collide with wheels; both collide with
\* the ground.
C9_CollisionFilter ==
    /\ \A X \in FrameFixtures, Y \in FrameFixtures :
          X.filterCategoryBits = Y.filterCategoryBits /\ ~Collide(X, Y)
    /\ \A X \in WheelFixtures :
          /\ \A Y \in FrameFixtures :
                X.filterCategoryBits # Y.filterCategoryBits
                /\ ~Collide(X, Y) /\ ~Collide(Y, X)
          /\ \A Y \in WheelFixtures : ~Collide(X, Y)
          /\ \A Y \in GroundFixtures : Collide(X, Y)
    /\ \A X \in FrameFixtures, Y \in GroundFixtures : Collide(X, Y)

C9_Witness ==
    /\ calls > 0 /\ lastCall.ok
    /\ Cardinality(FrameFixtures) >= 2
    /\ WheelFixtures # {} /\ GroundFixtures # {}

\* C10: after a successful createWorld the list is [ground, motorcycle]: a
\* static ground without children at (0, 1), a dynamic motorcycle at (0, 0);
\* every component that was in the list before the call is destroyed.
C10_GroundThenMotorcycle ==
    [][(calls' = calls + 1 /\ lastCall'.ok)
         => /\ Len(components') = 2
            /\ comps'[components'[1]].kind = "ground"
            /\ bodies'[comps'[components'[1]].body].type = "static"
            /\ comps'[components'[1]].children = <<>>
            /\ SamePoint(bodies'[comps'[components'[1]].body].pos, Vec2(0, GroundY))
            /\ comps'[components'[2]].kind = "motorcycle"
            /\ bodies'[comps'[components'[2]].body].type = "dynamic"
            /\ SamePoint(bodies'[comps'[components'[2]].body].pos, Vec2(0, 0))
            /\ \A i \in DOMAIN components :
                  /\ comps'[components[i]].body = Null
                  /\ components[i] \notin DOMAIN bodies'
                  /\ \A k \in 1..Len(comps[components[i]].children) :
                        /\ comps'[comps[components[i]].children[k]].body = Null
                        /\ comps[components[i]].children[k] \notin DOMAIN bodies']_vars

C10_Witness ==
    /\ calls >= 2 /\ lastCall.ok /\ Len(lastCall.prev) = 2
    /\ Len(components) = 2

\* the bodies of the component at place i of the list and of its children
BodiesOf(i) ==
    {components[i]} \cup {comps[components[i]].children[k] :
                              k \in DOMAIN comps[components[i]].children}

\* a complete ground: its body is in the world and carries the one box
CompleteGround(i) ==
    /\ comps[components[i]].kind = "ground"
    /\ components[i] \in DOMAIN bodies
    /\ Len(bodies[components[i]].fixtures) = 1

\* a complete rig: the frame body and the four child bodies are in the world
\* with their fixtures (three on the frame, one on each child), and the five
\* joints connect bodies of the rig
CompleteRig(i) ==
    /\ comps[components[i]].kind = "motorcycle"
    /\ Len(comps[components[i]].children) = 4
    /\ BodiesOf(i) \subseteq DOMAIN bodies
    /\ Len(bodies[components[i]].fixtures) = 3
    /\ \A b \in BodiesOf(i) \ {components[i]} : Len(bodies[b].fixtures) = 1
    /\ Cardinality(RigJoints) = 5
    /\ \A j \in RigJoints : j.bodyA \in BodiesOf(i) /\ j.bodyB \in BodiesOf(i)

\* C11: whenever a frame callback is pending, the component list it will see
\* is empty or is exactly one complete ground followed by one complete rig.
\* Every action is a whole handler, so a pending frame can start in any state.
C11_FrameSeesCompleteWorld ==
    frame.pending > 0 =>
        \/ components = <<>>
        \/ Len(components) = 2 /\ CompleteGround(1) /\ CompleteRig(2)

\* C12: every frame calls world.step exactly once when the simulation was
\* running and not at all when it was not, then calls draw, in that order and
\* nothing else; and after every frame exactly one callback is pending.
C12_StepThenDrawThenOneSuccessor ==
    /\ frame.pending = 1
    /\ frame.did = IF frame.running THEN <<"world.step", "draw">> ELSE <<"draw">>

\* a frame ran while the simulation was running and stepped a world that
\* holds components
C12_Witness ==
    /\ frame.running /\ frame.did = <<"world.step", "draw">> /\ moved
    /\ components # <<>>

\* the pointer joints in a joint list
PointerJoints(js) == {j \in js : j.type = "mouse-joint"}

\* the handle as a set: empty, or the one joint it refers to
Handle(h) == {h[k] : k \in DOMAIN h}

\* C13: the handle goes from none to a joint only by a press that puts into
\* the world one pointer joint from the pointer body to a dynamic body that has
\* a fixture; while a joint is held the handle changes only by a move, which
\* changes the target of that joint and nothing else of it; the handle goes
\* back to none only by a release, which takes the joint out of the world; at
\* all times the world holds at most one pointer joint, the one the handle
\* refers to, and none when the handle is none.
C13_PointerDrag ==
    [][/\ (mouseJoint = <<>> /\ mouseJoint' # <<>>) =>
             /\ joints' = joints \cup {mouseJoint'[1]}
             /\ mouseJoint'[1].type = "mouse-joint"
             /\ mouseJoint'[1].bodyA = MouseBody
             /\ mouseJoint'[1].bodyB \in DOMAIN bodies
             /\ bodies[mouseJoint'[1].bodyB].type = "dynamic"
             /\ bodies[mouseJoint'[1].bodyB].fixtures # <<>>
       /\ (mouseJoint # <<>> /\ mouseJoint' # <<>> /\ mouseJoint' # mouseJoint) =>
             /\ mouseJoint'[1] = [mouseJoint[1] EXCEPT !.target = mouseJoint'[1].target]
             /\ PointerJoints(joints') \subseteq {mouseJoint'[1]}
             /\ PointerJoints(joints') = {} <=> PointerJoints(joints) = {}
       /\ (mouseJoint # <<>> /\ mouseJoint' = <<>>) =>
             joints' = joints \ {mouseJoint[1]}
       /\ PointerJoints(joints) \subseteq Handle(mouseJoint)
       /\ PointerJoints(joints') \subseteq Handle(mouseJoint')]_vars

\* a body is held by the pointer joint and the pointer has moved since the
\* press
C13_Witness ==
    /\ mouseJoint # <<>>
    /\ PointerJoints(joints) = {mouseJoint[1]}
    /\ mouseJoint[1].target # mouseJoint[1].localAnchorB

\* the unit vector from headTubeBottom to headTubeTop
UnitForkAxis(frameVertices) ==
    normalize(Vec2(frameVertices[3].x - frameVertices[2].x,
                   frameVertices[3].y - frameVertices[2].y)).vec

\* where the claim puts the bottom fork: topForkTubeLength down the fork axis
\* from headTubeTop
BottomForkPlace(params) ==
    Along(FrameTriangle(params).value[3], UnitForkAxis(FrameTriangle(params).value),
          params.frame.topForkTubeLength)

\* C14: right after construction the bottom fork is at headTubeTop minus
\* topForkTubeLength along the fork axis, turned by the fork lean angle; the
\* front wheel is a further bottomForkTubeLength along the axis; the swingarm
\* is at the frame's origin with angle 0; the rear wheel is at
\* (swingarmLength, 0).
C14_ChildrenAtGeometricPositions ==
    AsConstructed =>
        /\ SamePoint(bodies[bottomForkOf(TheWorld, components[2])].pos,
                     BottomForkPlace(LastParams))
        /\ bodies[bottomForkOf(TheWorld, components[2])].angle
              = ForkAngle(UnitForkAxis(FrameTriangle(LastParams).value))
        /\ SamePoint(bodies[frontWheelOf(TheWorld, components[2])].pos,
                     Along(BottomForkPlace(LastParams),
                           UnitForkAxis(FrameTriangle(LastParams).value),
                           LastParams.frame.bottomForkTubeLength))
        /\ SamePoint(bodies[swingarmOf(TheWorld, components[2])].pos, Vec2(0, 0))
        /\ bodies[swingarmOf(TheWorld, components[2])].angle = Angle0
        /\ SamePoint(bodies[rearWheelOf(TheWorld, components[2])].pos,
                     Vec2(LastParams.frame.swingarmLength, 0))

\* the joints of a type between two bodies
Between(type, a, b) ==
    {j \in RigJoints : j.type = type /\ j.bodyA = a /\ j.bodyB = b}

\* C15: after a successful createWorld the rig has exactly five joints: one
\* prismatic joint frame - bottom fork with limits enabled, lower limit 0,
\* upper limit 0.15 m and no motor, one distance joint frame - bottom fork,
\* and one revolute joint each for bottom fork - front wheel, frame - swingarm
\* and swingarm - rear wheel; no joint has its motor enabled.
C15_FiveJoints ==
    (calls > 0 /\ lastCall.ok) =>
        /\ Cardinality(RigJoints) = 5
        /\ \A j \in RigJoints : ~j.enableMotor
        /\ Cardinality(Between("prismatic-joint", components[2],
                               bottomForkOf(TheWorld, components[2]))) = 1
        /\ \A j \in RigJoints :
              j.type = "prismatic-joint" =>
                  /\ j.enableLimit
                  /\ j.lowerTranslation = 0
                  /\ j.upperTranslation = 15
        /\ Cardinality(Between("distance-joint", components[2],
                               bottomForkOf(TheWorld, components[2]))) = 1
        /\ Cardinality(Between("revolute-joint",
                               bottomForkOf(TheWorld, components[2]),
                               frontWheelOf(TheWorld, components[2]))) = 1
        /\ Cardinality(Between("revolute-joint", components[2],
                               swingarmOf(TheWorld, components[2]))) = 1
        /\ Cardinality(Between("revolute-joint",
                               swingarmOf(TheWorld, components[2]),
                               rearWheelOf(TheWorld, components[2]))) = 1

\* a rig stands, built by the second call after an earlier rig was destroyed,
\* and a pointer joint holds one of its bodies besides the five joints
C15_Witness ==
    /\ calls = 2 /\ lastCall.ok /\ lastCall.prevOk
    /\ Cardinality(RigJoints) = 5
    /\ Cardinality(joints) = 6

(***************************************************************************)
(* The geometry solver on its own (specification GeomSpec): each step is   *)
(* one call, geo holds the call and what it gave.                          *)
(***************************************************************************)
MaxSide == 5

Sides == (0 - 1)..MaxSide

\* vertices on a grid whose points are whole distances apart
GeoPoints == {Vec2(x, y) : x \in {0, 3}, y \in {0, 4}}

\* what triangleFromVerticesAndEdges can be given as a vertex: a point, null,
\* or an object without coordinates
Vertices == GeoPoints \cup {MissingVertex, NaNVec}

\* the lengths given together with a vertex that is not a point
LengthsWithBadVertex == {0, 2}

\* the lengths of the named sides
SideValues == {2, 3, 7}

SideNames == <<"Head Tube", "Top Bar", "Down Tube">>

\* a side without a numeric value
BadSide == [displayName |-> "", value |-> 0, unit |-> "mm", wellFormed |-> FALSE]

\* what triangleVerticesNamed can be given at position k (1, 2, 3)
NamedSides(k) == {Side(SideNames[k], v, "mm") : v \in SideValues} \cup {BadSide}

GeomInit ==
    /\ bodies = <<>> /\ joints = {} /\ nextId = 0 /\ comps = <<>>
    /\ IdleSim /\ IdleTree /\ IdleMain
    /\ geo = NoGeo

GeomIdle ==
    UNCHANGED <<bodies, joints, nextId, comps, components, mouseJoint, isRunning,
                moved, calls, lastCall, destroyLog, worldBodies, sliders, edit, frame, trace>>

CallTriangleVertices(a, b, c) ==
    /\ geo' = [fn |-> "triangleVertices", args |-> <<a, b, c>>,
               result |-> triangleVertices(a, b, c)]
    /\ GeomIdle

CallTriangleFromVerticesAndEdges(vertexA, vertexB, lengthA, lengthB) ==
    /\ geo' = [fn |-> "triangleFromVerticesAndEdges",
               args |-> <<vertexA, vertexB, lengthA, lengthB>>,
               result |-> triangleFromVerticesAndEdges(vertexA, vertexB, lengthA, lengthB)]
    /\ GeomIdle

CallTriangleVerticesNamed(sideA, sideB, sideC) ==
    /\ geo' = [fn |-> "triangleVerticesNamed", args |-> <<sideA, sideB, sideC>>,
               result |-> triangleVerticesNamed(sideA, sideB, sideC)]
    /\ GeomIdle

GeomNext ==
    \/ \E a \in Sides, b \in Sides, c \in Sides : CallTriangleVertices(a, b, c)
    \/ \E vertexA \in GeoPoints, vertexB \in GeoPoints, lengthA \in Sides, lengthB \in Sides :
          CallTriangleFromVerticesAndEdges(vertexA, vertexB, lengthA, lengthB)
    \/ \E vertexA \in Vertices, vertexB \in Vertices,
           lengthA \in LengthsWithBadVertex, lengthB \in LengthsWithBadVertex :
          /\ vertexA \notin GeoPoints \/ vertexB \notin GeoPoints
          /\ CallTriangleFromVerticesAndEdges(vertexA, vertexB, lengthA, lengthB)
    \/ \E sideA \in NamedSides(1), sideB \in NamedSides(2), sideC \in NamedSides(3) :
          CallTriangleVerticesNamed(sideA, sideB, sideC)

GeomSpec == GeomInit /\ [][GeomNext]_vars

(***************************************************************************)
(* The geometry solver in the arithmetic of the JavaScript Number: binary  *)
(* floating point, the result of every operation rounded to the nearest    *)
(* representable value, ties to even.  A value is m * 2^e with             *)
(* |m| <= 2^MantissaBits (53 bits in JavaScript); the exponent is not       *)
(* bounded, lengths in metres being far from overflow and underflow.       *)
(***************************************************************************)
MantissaBits == 5

RECURSIVE Pow2(_)
Pow2(n) == IF n <= 0 THEN 1 ELSE 2 * Pow2(n - 1)

RECURSIVE BitLength(_)
BitLength(n) == IF n = 0 THEN 0 ELSE 1 + BitLength(n \div 2)

Num(m, e) == [m |-> m, e |-> e]

\* NaN
NumNaN == [m |-> 0, e |-> 0, nan |-> TRUE]
IsNaN(x) == "nan" \in DOMAIN x

\* n / 2^sh for n >= 0, rounded to the nearest integer, ties to even
RoundShift(n, sh) ==
    IF 2 * (n % Pow2(sh)) > Pow2(sh)
          \/ (2 * (n % Pow2(sh)) = Pow2(sh) /\ (n \div Pow2(sh)) % 2 = 1)
    THEN n \div Pow2(sh) + 1
    ELSE n \div Pow2(sh)

\* the Number nearest to n * 2^e
Rounded(n, e) ==
    IF n = 0 THEN Num(0, 0)
    ELSE IF Abs(n) <= Pow2(MantissaBits) THEN Num(n, e)
    ELSE Num((IF n < 0 THEN -1 ELSE 1)
                 * RoundShift(Abs(n), BitLength(Abs(n)) - MantissaBits),
             e + BitLength(Abs(n)) - MantissaBits)

\* the mantissa of x at the smaller of the two exponents
Aligned(x, y) == x.m * Pow2(x.e - (IF x.e < y.e THEN x.e ELSE y.e))

LowerE(x, y) == IF x.e < y.e THEN x.e ELSE y.e

\* x + y, x - y, x * y; NaN when an operand is NaN
NumAdd(x, y) ==
    IF IsNaN(x) \/ IsNaN(y) THEN NumNaN
    ELSE Rounded(Aligned(x, y) + Aligned(y, x), LowerE(x, y))
NumSub(x, y) ==
    IF IsNaN(x) \/ IsNaN(y) THEN NumNaN
    ELSE Rounded(Aligned(x, y) - Aligned(y, x), LowerE(x, y))
NumMul(x, y) ==
    IF IsNaN(x) \/ IsNaN(y) THEN NumNaN
    ELSE Rounded(x.m * y.m, x.e + y.e)

\* x >= y and x > y; false when an operand is NaN
NumGeq(x, y) == ~IsNaN(x) /\ ~IsNaN(y) /\ Aligned(x, y) >= Aligned(y, x)
NumGreater(x, y) == ~IsNaN(x) /\ ~IsNaN(y) /\ Aligned(x, y) > Aligned(y, x)

\* a quotient or root with enough bits to be rounded; the lowest bit tells
\* whether anything was left over
WithSticky(q, exact) == 2 * q + (IF exact THEN 0 ELSE 1)

\* x / y; NaN when an operand is NaN and for 0 / 0.  The solver divides by 0
\* only a numerator that is NaN or 0.
NumDiv(x, y) ==
    IF IsNaN(x) \/ IsNaN(y) \/ y.m = 0 THEN NumNaN
    ELSE Rounded((IF (x.m < 0) = (y.m < 0) THEN 1 ELSE -1)
               * WithSticky((Abs(x.m) * Pow2(2 * MantissaBits + 2)) \div Abs(y.m),
                            (Abs(x.m) * Pow2(2 * MantissaBits + 2)) % Abs(y.m) = 0),
            x.e - y.e - (2 * MantissaBits + 2) - 1)

\* x with an even exponent
EvenE(x) == IF x.e % 2 = 0 THEN x ELSE Num(2 * x.m, x.e - 1)

\* Math.sqrt(x) for x >= 0 or NaN
NumSqrt(x) ==
    IF IsNaN(x) THEN NumNaN
    ELSE Rounded(WithSticky(Sqrt(EvenE(x).m * Pow2(2 * MantissaBits + 2)),
                       Sqrt(EvenE(x).m * Pow2(2 * MantissaBits + 2))
                          * Sqrt(EvenE(x).m * Pow2(2 * MantissaBits + 2))
                         = EvenE(x).m * Pow2(2 * MantissaBits + 2)),
            EvenE(x).e \div 2 - (MantissaBits + 1) - 1)

\* Math.acos(k) is a number: -1 <= k <= 1
InAcosDomain(k) == ~IsNaN(k) /\ NumGeq(Num(1, 0), Num(Abs(k.m), k.e))

\* a >= b + c || b >= a + c || c >= a + b
NumberInequalityFails(a, b, c) ==
    NumGeq(a, NumAdd(b, c)) \/ NumGeq(b, NumAdd(a, c)) \/ NumGeq(c, NumAdd(a, b))

\* -2 * x * y, the divisor of the law-of-cosines step
Divisor(x, y) == NumMul(NumMul(Num(-2, 0), x), y)

\* (a * a - b * b - c * c) / (-2 * b * c)
NumberCosC(a, b, c) ==
    NumDiv(NumSub(NumSub(NumMul(a, a), NumMul(b, b)), NumMul(c, c)), Divisor(b, c))

\* a vertex by whether its coordinates are numbers or NaN
Vertex(isFinite) == [finite |-> isFinite]

\* triangleVertices(a, b, c): C and B are built from 0 and c, A from
\* Math.acos(cosC)
NumberTriangleVertices(a, b, c) ==
    IF NumberInequalityFails(a, b, c) THEN Threw(InvalidTriangle)
    ELSE Returned(<<Vertex(TRUE), Vertex(TRUE), Vertex(InAcosDomain(NumberCosC(a, b, c)))>>)

\* distance(p1, p2)
NumberDistance(p1, p2) ==
    NumSqrt(NumAdd(NumMul(NumSub(p2.x, p1.x), NumSub(p2.x, p1.x)),
                   NumMul(NumSub(p2.y, p1.y), NumSub(p2.y, p1.y))))

\* (lengthB^2 - lengthA^2 - lengthC^2) / (-2 * lengthA * lengthC)
NumberCosA(lengthA, lengthB, lengthC) ==
    NumDiv(NumSub(NumSub(NumMul(lengthB, lengthB), NumMul(lengthA, lengthA)),
                  NumMul(lengthC, lengthC)),
           Divisor(lengthA, lengthC))

\* triangleFromVerticesAndEdges(vertexA, vertexB, lengthA, lengthB) for
\* two points: the vertex returned is built from Math.acos(cosA)
NumberTriangleFromVerticesAndEdges(vertexA, vertexB, lengthA, lengthB) ==
    IF NumGeq(Num(0, 0), lengthA) \/ NumGeq(Num(0, 0), lengthB)
    THEN Threw("Invalid input: edge lengths must be positive")
    ELSE IF NumberInequalityFails(lengthA, lengthB, NumberDistance(vertexA, vertexB))
    THEN Threw(InvalidTriangle)
    ELSE Returned(<<Vertex(InAcosDomain(
             NumberCosA(lengthA, lengthB, NumberDistance(vertexA, vertexB))))>>)

\* the Numbers with a full mantissa in [2^(MantissaBits - 1), 2^MantissaBits)
Binade == {Num(m, 0) : m \in Pow2(MantissaBits - 1)..(Pow2(MantissaBits) - 1)}

\* lengths: 0, NaN, a binade and the next one
NumberSides ==
    {Num(0, 0), NumNaN} \cup Binade \cup {Num(x.m, 1) : x \in Binade}

\* points on the axes
NumberPoints ==
    {[x |-> d, y |-> Num(0, 0)] : d \in Binade \cup {Num(0, 0)}}
       \cup {[x |-> Num(0, 0), y |-> d] : d \in Binade}

NotYetCalled(args) == [fn |-> "none", args |-> args, result |-> Returned(<<>>)]

\* the arguments of one call
NumberInit ==
    /\ bodies = <<>> /\ joints = {} /\ nextId = 0 /\ comps = <<>>
    /\ IdleSim /\ IdleTree /\ IdleMain
    /\ \/ \E a \in Binade \cup {Num(0, 0), NumNaN}, b \in NumberSides, c \in NumberSides :
             geo = NotYetCalled(<<a, b, c>>)
       \/ \E vertexB \in NumberPoints, lengthA \in NumberSides,
              lengthB \in Binade \cup {Num(0, 0)} :
             geo = NotYetCalled(<<[x |-> Num(0, 0), y |-> Num(0, 0)], vertexB, lengthA, lengthB>>)

NumberCallTriangleVertices ==
    /\ geo.fn = "none" /\ Len(geo.args) = 3
    /\ geo' = [fn |-> "triangleVertices", args |-> geo.args,
               result |-> NumberTriangleVertices(geo.args[1], geo.args[2], geo.args[3])]
    /\ GeomIdle

NumberCallTriangleFromVerticesAndEdges ==
    /\ geo.fn = "none" /\ Len(geo.args) = 4
    /\ geo' = [fn |-> "triangleFromVerticesAndEdges", args |-> geo.args,
               result |-> NumberTriangleFromVerticesAndEdges(
                              geo.args[1], geo.args[2], geo.args[3], geo.args[4])]
    /\ GeomIdle

NumberNext ==
    \/ NumberCallTriangleVertices
    \/ NumberCallTriangleFromVerticesAndEdges

NumberSpec == NumberInit /\ [][NumberNext]_vars

Offender(sides) ==
    CHOOSE i \in 1..3 :
        2 * sides[i].value >= sides[1].value + sides[2].value + sides[3].value

NameAndValue(side) == <<side.displayName, side.value>>

\* C19: when three well-formed named sides violate the triangle inequality,
\* the error of triangleVerticesNamed names the offending side with that
\* side's own value, and names the two other sides with their values.
C19_MessageNamesOffender ==
    (/\ geo.fn = "triangleVerticesNamed"
     /\ \A i \in 1..3 : geo.args[i].wellFormed
     /\ \E i \in 1..3 : 2 * geo.args[i].value
                            >= geo.args[1].value + geo.args[2].value + geo.args[3].value) =>
        /\ ~geo.result.ok
        /\ geo.result.error = "Invalid geometry"
        /\ geo.result.message[1].tooLong = geo.args[Offender(geo.args)].displayName
        /\ geo.result.message[1].tooLongValue = geo.args[Offender(geo.args)].value
        /\ {<<geo.result.message[1].with1, geo.result.message[1].with1Value>>,
            <<geo.result.message[1].with2, geo.result.message[1].with2Value>>}
             = {NameAndValue(geo.args[i]) : i \in (1..3) \ {Offender(geo.args)}}

\* C20: triangleVerticesNamed given a malformed side throws 'Invalid side
\* parameter' with the position of the first malformed side;
\* triangleFromVerticesAndEdges throws when a vertex is missing or has no
\* coordinates or when a length is not positive.
C20_MalformedInputRejected ==
    /\ (geo.fn = "triangleVerticesNamed"
          /\ \E i \in 1..3 : ~geo.args[i].wellFormed) =>
          /\ ~geo.result.ok
          /\ geo.result.error = "Invalid side parameter"
          /\ ~geo.args[geo.result.position + 1].wellFormed
          /\ \A i \in 1..geo.result.position : geo.args[i].wellFormed
    /\ (geo.fn = "triangleFromVerticesAndEdges"
          /\ (\/ IsMissing(geo.args[1]) \/ IsMissing(geo.args[2])
              \/ ~geo.args[1].finite \/ ~geo.args[2].finite
              \/ geo.args[3] <= 0 \/ geo.args[4] <= 0)) =>
          ~geo.result.ok

\* each side is less than the sum of the other two
\* each of three numbers is less than the sum of the two others
EachSideLess(a, b, c) ==
    /\ NumGreater(NumAdd(b, c), a)
    /\ NumGreater(NumAdd(a, c), b)
    /\ NumGreater(NumAdd(a, b), c)

\* C21: for every (a, b, c) in which each side is less than the sum of the
\* two others, triangleVertices returns three finite points [C, B, A].
C21_ThreeFiniteVertices ==
    (/\ geo.fn = "triangleVertices"
     /\ EachSideLess(geo.args[1], geo.args[2], geo.args[3])) =>
        /\ geo.result.ok
        /\ Len(geo.result.value) = 3
        /\ \A i \in 1..3 : geo.result.value[i].finite

\* C22: for two points and positive lengths that pass the inequality check
\* with |AB|, triangleFromVerticesAndEdges returns a point C, which has a
\* distance to A and to B and a side of the edge from A to B.
C22_ApexIsAPoint ==
    (/\ geo.fn = "triangleFromVerticesAndEdges"
     /\ NumGreater(geo.args[3], Num(0, 0)) /\ NumGreater(geo.args[4], Num(0, 0))
     /\ EachSideLess(geo.args[3], geo.args[4],
                     NumberDistance(geo.args[1], geo.args[2]))) =>
        /\ geo.result.ok
        /\ geo.result.value[1].finite

\* side i of the triple is at least as long as the two others together
Violates(sides, i) ==
    2 * sides[i].value >= sides[1].value + sides[2].value + sides[3].value

\* a call of triangleVerticesNamed with three well-formed sides that violate
\* the triangle inequality
NamedCallViolates ==
    /\ geo.fn = "triangleVerticesNamed"
    /\ \A i \in 1..3 : geo.args[i].wellFormed
    /\ TriangleInequalityFails(geo.args[1].value, geo.args[2].value, geo.args[3].value)

\* C23: when three well-formed named sides violate the triangle inequality,
\* the side whose name triangleVerticesNamed reports as too long has a value
\* >= the sum of the two other values; it is the first of sideA, sideB, sideC
\* that violates, and sideC is named only when it violates itself.
C23_NamedSideIsOffender ==
    NamedCallViolates =>
        /\ ~geo.result.ok /\ geo.result.error = "Invalid geometry"
        /\ \E i \in 1..3 :
              /\ geo.args[i].displayName = geo.result.message[1].tooLong
              /\ Violates(geo.args, i)
              /\ \A j \in 1..(i - 1) : ~Violates(geo.args, j)

\* sideC was named: neither sideA nor sideB violates
C23_Witness ==
    /\ NamedCallViolates
    /\ ~Violates(geo.args, 1) /\ ~Violates(geo.args, 2)
    /\ geo.result.message[1].tooLong = geo.args[3].displayName
    /\ geo.args[3].value = 7

\* a slider or text edit whose updateBodies threw, or which was refused
EditFailed == edit' # edit /\ edit'.kind \in {"slider", "text"} /\ ~edit'.ok

\* C24: when updateBodies is called on an existing world with frame
\* parameters that violate a triangle inequality, it throws with the world as
\* it was before the call: the same bodies with the same fixtures, positions
\* and angles, the same joints, the same worldBodies.
C24_ThrowLeavesWorld ==
    [][EditFailed =>
         /\ bodies' = bodies /\ joints' = joints /\ nextId' = nextId
         /\ worldBodies' = worldBodies]_vars

\* a slider's updateBodies threw on a world that has the rig, and the rig is
\* there with its fixtures and five joints
C24_Witness ==
    /\ edit.kind = "slider" /\ ~edit.ok
    /\ worldBodies # <<>>
    /\ bodies[worldBodies.frame].fixtures # <<>>
    /\ Cardinality(joints) = 5

\* the cosine whose Math.acos the call took
CosineOfCall ==
    IF geo.fn = "triangleVertices"
    THEN NumberCosC(geo.args[1], geo.args[2], geo.args[3])
    ELSE NumberCosA(geo.args[3], geo.args[4], NumberDistance(geo.args[1], geo.args[2]))

\* the lengths of the call are numbers, none of them NaN
LengthsAreNumbers ==
    IF geo.fn = "triangleVertices"
    THEN \A i \in 1..3 : ~IsNaN(geo.args[i])
    ELSE ~IsNaN(geo.args[3]) /\ ~IsNaN(geo.args[4])

\* C25: for every (a, b, c) that passes the inequality check of
\* triangleVertices the value cosC lies in [-1, 1], and so does cosA in
\* triangleFromVerticesAndEdges for (lengthA, lengthB, |AB|) that pass its
\* check.
C25_CosineInRange ==
    (geo.fn # "none" /\ geo.result.ok /\ LengthsAreNumbers)
        => InAcosDomain(CosineOfCall)

\* C26: under any interleaving of presses, moves and releases with
\* createWorld, whenever mouseJoint is not null the joint it refers to is in
\* the world and connects the pointer body to a body that has not been
\* destroyed.
C26_HandleRefersToLiveJoint ==
    mouseJoint # <<>> =>
        /\ mouseJoint[1] \in joints
        /\ mouseJoint[1].bodyA = MouseBody /\ MouseBody \in DOMAIN bodies
        /\ mouseJoint[1].bodyB \in DOMAIN bodies

\* C27: after any sequence of createWorld calls, throwing ones included,
\* every body of the world other than the pointer body is the body of a
\* component of the top-level list or of one of its children.
C27_NoOrphanBodies ==
    \A b \in DOMAIN bodies \ {MouseBody} :
        \E i \in DOMAIN components : b \in BodiesOf(i)

\* the number is 0
IsZero(x) == ~IsNaN(x) /\ x.m = 0

\* the divisor of the call's law-of-cosines step
DivisorOfCall ==
    IF geo.fn = "triangleVertices"
    THEN Divisor(geo.args[2], geo.args[3])
    ELSE Divisor(geo.args[3], NumberDistance(geo.args[1], geo.args[2]))

\* C29: every (a, b, c) that triangleVertices accepts has a > 0, b > 0 and
\* c > 0; triangleFromVerticesAndEdges rejects every call whose vertices
\* coincide; and no accepted call of either divides by zero.
C29_DegenerateRejected ==
    /\ (geo.fn = "triangleVertices" /\ geo.result.ok) =>
          \A i \in 1..3 : NumGreater(geo.args[i], Num(0, 0))
    /\ (geo.fn = "triangleFromVerticesAndEdges"
          /\ IsZero(NumberDistance(geo.args[1], geo.args[2]))) => ~geo.result.ok
    /\ (geo.fn # "none" /\ geo.result.ok) => ~IsZero(DivisorOfCall)

\* C30: after every createWorld that built a rig, and before the engine has
\* moved it, the rest length of the distance joint is the distance between
\* its two anchors in world space: headTubeBottom on the frame and the bottom
\* end of the bottom fork tube.
C30_SpringStartsUnloaded ==
    AsConstructed =>
        \A j \in joints :
            j.type = "distance-joint" =>
                /\ AnchorA(j).finite /\ AnchorB(j).finite
                /\ j.length = distance(AnchorA(j), AnchorB(j))

(***************************************************************************)
(* Component trees on their own (specification TreeSpec): components are   *)
(* created, given children, and destroyed.                                 *)
(***************************************************************************)
MaxComps == 3
MaxKids == 2

RECURSIVE Flatten(_, _)
RECURSIVE FlattenAll(_, _)
\* the components below c and c itself, once for every path that leads there
Flatten(cs, c) == <<c>> \o FlattenAll(cs, cs[c].children)
FlattenAll(cs, kids) ==
    IF kids = <<>> THEN <<>>
    ELSE Flatten(cs, Head(kids)) \o FlattenAll(cs, Tail(kids))

Subtree(cs, c) == {Flatten(cs, c)[i] : i \in DOMAIN Flatten(cs, c)}

\* no component is reached twice
IsTree(cs, c) == Cardinality(Subtree(cs, c)) = Len(Flatten(cs, c))

\* the largest of a set of numbers
Largest(S) == CHOOSE m \in S : \A n \in S : n <= m

RECURSIVE Height(_, _)
Height(cs, c) ==
    IF cs[c].children = <<>> THEN 0
    ELSE 1 + Largest({Height(cs, cs[c].children[k]) : k \in DOMAIN cs[c].children})

TreeInit ==
    /\ bodies = <<>> /\ joints = {} /\ nextId = 0 /\ comps = <<>>
    /\ IdleSim /\ IdleGeo /\ IdleMain
    /\ destroyLog = NoDestroy /\ trace = NoTrace

Becomes(W) ==
    /\ bodies' = W.bodies /\ joints' = W.joints
    /\ nextId' = W.nextId /\ comps' = W.comps

TreeIdle ==
    UNCHANGED <<components, mouseJoint, isRunning, moved, calls, lastCall, geo,
                worldBodies, sliders, edit, frame>>

\* new SimulationComponent(simulation)
New ==
    /\ nextId < MaxComps
    /\ Becomes(NewComponent(TheWorld, "node", "dynamic"))
    /\ trace' = NoTrace
    /\ destroyLog' = NoDestroy
    /\ TreeIdle

\* what addChild is given besides components: null and a plain object
NotComponents == {Null, 0 - 1}

AddedChild(parent, child, r) ==
    /\ Becomes(r.W)
    /\ trace' = Traced("addChild", parent, child, r.ok, <<>>, EntryCtx)

\* parent.addChild(child); children that are components were created after
\* their parent.  A child can be added to several parents, and the second
\* component a second time to the first when that has no other child; a list
\* that holds a child twice is given no further child.
AddChild(parent, child) ==
    /\ child \in DOMAIN comps =>
          /\ parent < child
          /\ Len(comps[parent].children) < MaxKids
          /\ (/\ comps[parent].children = <<child>>
                /\ child = parent + 1
                /\ \A q \in DOMAIN comps : parent <= q)
                \/ \A k, l \in DOMAIN comps[parent].children :
                      /\ comps[parent].children[k] # child
                      /\ comps[parent].children[k] = comps[parent].children[l] => k = l
    /\ AddedChild(parent, child, tryAddChild(TheWorld, parent, child))
    /\ destroyLog' = NoDestroy
    /\ TreeIdle

\* parent.removeChild(child)
RemoveChild(parent, child) ==
    /\ Becomes(removeChild(TheWorld, parent, child))
    /\ trace' = Traced("removeChild", parent, child, TRUE, <<>>, EntryCtx)
    /\ destroyLog' = NoDestroy
    /\ TreeIdle

\* the params objects given to update
UpdateParams == {1, 2}

\* c.update(params)
Update(c, params) ==
    /\ trace' = Traced("update", c, params, TRUE, update(comps, params, c), EntryCtx)
    /\ destroyLog' = NoDestroy
    /\ UNCHANGED <<bodies, joints, nextId, comps>> /\ TreeIdle

Drawn(c, d) ==
    trace' = Traced("draw", c, Null, d.ok, d.calls, d.ctx)

\* c.draw(ctx)
Draw(c) ==
    /\ Drawn(c, draw(TheWorld, [ok |-> TRUE, ctx |-> EntryCtx, calls |-> <<>>], c))
    /\ destroyLog' = NoDestroy
    /\ UNCHANGED <<bodies, joints, nextId, comps>> /\ TreeIdle

Destroyed(c, r) ==
    /\ Becomes(r.W)
    /\ destroyLog' = [root |-> c, log |-> r.log, wasTree |-> IsTree(comps, c),
                      height |-> Height(comps, c)]

\* c.destroy()
Destroy(c) ==
    /\ Destroyed(c, destroy(TheWorld, <<>>, c))
    /\ trace' = NoTrace
    /\ TreeIdle

TreeNext ==
    \/ New
    \/ \E parent \in DOMAIN comps, child \in DOMAIN comps \cup NotComponents :
          AddChild(parent, child)
    \/ \E parent \in DOMAIN comps, child \in DOMAIN comps : RemoveChild(parent, child)
    \/ \E c \in DOMAIN comps : Destroy(c)
    \/ \E c \in DOMAIN comps, params \in UpdateParams : Update(c, params)
    \/ \E c \in DOMAIN comps : Draw(c)

TreeSpec == TreeInit /\ [][TreeNext]_vars

\* the place of body b in the order of the destroyBody calls, 0 when absent
CallOf(log, b) ==
    IF \E i \in DOMAIN log : log[i] = b
    THEN CHOOSE i \in DOMAIN log : log[i] = b
    ELSE 0

\* C8: destroy() on the root of a tree hands every descendant's body to
\* world.destroyBody before its parent's body, once for each component that
\* has a body, and leaves every component of the tree with body null and no
\* children.
C8_DestroyPostOrder ==
    [][\A c \in DOMAIN comps :
          (destroyLog' # destroyLog /\ destroyLog'.root = c /\ IsTree(comps, c)) =>
             /\ \A i, j \in DOMAIN destroyLog'.log :
                   destroyLog'.log[i] = destroyLog'.log[j] => i = j
             /\ {destroyLog'.log[i] : i \in DOMAIN destroyLog'.log}
                   = {comps[d].body : d \in Subtree(comps, c)} \ {Null}
             /\ \A p \in Subtree(comps, c) :
                   \A k \in DOMAIN comps[p].children :
                      (comps[p].body # Null /\ comps[comps[p].children[k]].body # Null)
                         => CallOf(destroyLog'.log, comps[comps[p].children[k]].body)
                              < CallOf(destroyLog'.log, comps[p].body)
             /\ \A d \in Subtree(comps, c) :
                   /\ comps'[d].body = Null
                   /\ comps'[d].children = <<>>
                   /\ comps[d].body \notin DOMAIN bodies']_vars

\* a tree of three components in a chain, all with bodies, was destroyed
C8_Witness ==
    /\ destroyLog.wasTree /\ destroyLog.height = 2
    /\ Len(destroyLog.log) = 3
    /\ comps[destroyLog.root].body = Null

\* the places in a list of calls at which component x was called
PlacesOf(made, x) == {i \in DOMAIN made : made[i].comp = x}

\* the place of the one call of component x
PlaceOf(made, x) == CHOOSE i \in DOMAIN made : made[i].comp = x

\* every component below root is called once, after its parent; the calls of
\* a component and of everything below it are consecutive; and the children
\* of a component come in the order of its list
OncePreOrder(made, root) ==
    /\ Len(made) = Cardinality(Subtree(comps, root))
    /\ \A x \in Subtree(comps, root) :
          /\ Cardinality(PlacesOf(made, x)) = 1
          /\ \A y \in Subtree(comps, x) :
                /\ PlaceOf(made, x) <= PlaceOf(made, y)
                /\ PlaceOf(made, y) < PlaceOf(made, x) + Cardinality(Subtree(comps, x))
          /\ \A k, l \in DOMAIN comps[x].children :
                k < l => PlaceOf(made, comps[x].children[k])
                           < PlaceOf(made, comps[x].children[l])
    /\ made # <<>> /\ made[1].comp = root

\* C16: update(params) on the root of a tree calls updateImpl exactly once on
\* every component of the tree, each time with the params given to the root,
\* the root first, every component before its children and the children in
\* the order they were added, depth first.
C16_UpdatePreOrder ==
    (trace.op = "update" /\ IsTree(comps, trace.root)) =>
        /\ OncePreOrder(trace.calls, trace.root)
        /\ \A i \in DOMAIN trace.calls : trace.calls[i].params = trace.arg

\* update was called on a root with two children, and on a chain of three
C16_Witness ==
    /\ trace.op = "update" /\ IsTree(comps, trace.root)
    /\ Len(trace.calls) = 3
    /\ Len(comps[trace.root].children) = 2
    /\ trace.arg = 2

\* every component below root has a body
AllAlive(root) == \A x \in Subtree(comps, root) : comps[x].body # Null

\* C17: draw(ctx) on the root of a tree of components that have bodies calls
\* drawImpl once per component; each call sees the transform in force when
\* draw was entered followed by that component's own position and angle and
\* nothing of its parent or siblings; afterwards the transform and the stack
\* of saved states are what they were at entry.
C17_DrawOwnTransform ==
    (trace.op = "draw" /\ IsTree(comps, trace.root) /\ AllAlive(trace.root)) =>
        /\ trace.ok
        /\ OncePreOrder(trace.calls, trace.root)
        /\ \A i \in DOMAIN trace.calls :
              trace.calls[i].transform
                = <<ViewTransform,
                    [body |-> comps[trace.calls[i].comp].body,
                     pos |-> bodies[comps[trace.calls[i].comp].body].pos,
                     angle |-> bodies[comps[trace.calls[i].comp].body].angle]>>
        /\ trace.ctx = EntryCtx

\* a chain of three components with bodies was drawn: a child that has a
\* child of its own
C17_Witness ==
    /\ trace.op = "draw" /\ trace.ok
    /\ IsTree(comps, trace.root) /\ Height(comps, trace.root) = 2
    /\ Len(trace.calls) = 3

\* C18: addChild with a component appends it to the parent's list and
\* changes no other list; addChild with anything else throws and changes no
\* list; removeChild takes the child out of the parent's list, once, and
\* keeps the others in their order; it changes nothing when the child is not
\* in the list.
C18_ChildrenList ==
    [][/\ trace'.op = "addChild" =>
             /\ trace'.ok <=> trace'.arg \in DOMAIN comps
             /\ comps' = IF trace'.arg \in DOMAIN comps
                         THEN [comps EXCEPT ![trace'.root].children
                                               = Append(@, trace'.arg)]
                         ELSE comps
       /\ trace'.op = "removeChild" =>
             \/ /\ comps' = comps
                /\ \A k \in DOMAIN comps[trace'.root].children :
                      comps[trace'.root].children[k] # trace'.arg
             \/ \E k \in DOMAIN comps[trace'.root].children :
                   /\ comps[trace'.root].children[k] = trace'.arg
                   /\ comps' = [comps EXCEPT ![trace'.root].children
                                   = SubSeq(@, 1, k - 1) \o SubSeq(@, k + 1, Len(@))]]_vars

\* addChild was given something that is not a component and threw; the
\* parent's list holds two children, the later created one added first
C18_Witness ==
    /\ trace.op = "addChild" /\ ~trace.ok
    /\ Len(comps[trace.root].children) = 2
    /\ comps[trace.root].children[1] > comps[trace.root].children[2]

\* C28: world.destroyBody is called at most once for a component's body.
\* Whatever the shape under the component destroyed, a child added twice or
\* under two parents included, the bodies handed to destroyBody by one
\* destroy() are distinct, each was in the world before and none is after;
\* they are the bodies of the components below it, which all end with body
\* null; and destroy() on a component whose bodies are gone calls destroyBody
\* for nothing and leaves the world as it is.
C28_DestroyBodyOnce ==
    [][\A c \in DOMAIN comps :
          (destroyLog' # destroyLog /\ destroyLog'.root = c) =>
             /\ \A i, j \in DOMAIN destroyLog'.log :
                   destroyLog'.log[i] = destroyLog'.log[j] => i = j
             /\ \A i \in DOMAIN destroyLog'.log :
                   /\ destroyLog'.log[i] \in DOMAIN bodies
                   /\ destroyLog'.log[i] \notin DOMAIN bodies'
             /\ {destroyLog'.log[i] : i \in DOMAIN destroyLog'.log}
                   = {comps[d].body : d \in Subtree(comps, c)} \ {Null}
             /\ \A d \in Subtree(comps, c) : comps'[d].body = Null
             /\ (\A d \in Subtree(comps, c) : comps[d].body = Null) =>
                   destroyLog'.log = <<>> /\ bodies' = bodies]_vars

\* a component was destroyed that held the same child twice: two bodies were
\* handed to destroyBody, the child's and its own
C28_Witness ==
    /\ destroyLog.root # Null /\ ~destroyLog.wasTree
    /\ destroyLog.height = 1
    /\ Len(destroyLog.log) = 2
    /\ comps[destroyLog.root].body = Null

(***************************************************************************)
(* The page of main.js on the functions of physics.js (specification       *)
(* MainSpec): sliders and text boxes call updateBodies, the reset button   *)
(* calls createWorld.                                                      *)
(***************************************************************************)
MASKS == [NONE |-> 0, FRAME |-> 2, GROUND |-> 5, WHEEL |-> 2]

\* the default parameter set, lengths in centimetres
Defaults ==
    [head |-> 50, toTop |-> 50, toBottom |-> 80, top |-> 30, bottom |-> 30,
     swing |-> 50, shockTop |-> 40, shockPivot |-> 30]

ParamsOf(v) ==
    MkParams("full", HeadTube(v.head), v.toTop, v.toBottom, v.top, v.bottom,
             v.swing, v.shockTop, v.shockPivot)

\* getDefaultParams()
getDefaultParams == ParamsOf(Defaults)

\* value_mm = config.value * 1000
ValueMm(key) == Defaults[key] * 10

\* getCurrentParams(): parseInt(slider.value) / 1000 for every frame key
getCurrentParams(sl) == ParamsOf([key \in DOMAIN sl |-> sl[key] \div 10])

\* slider.min = Math.round(value_mm * 0.5), slider.max = Math.round(value_mm * 1.5)
SliderMin(key) == (ValueMm(key) + 1) \div 2
SliderMax(key) == (3 * ValueMm(key) + 1) \div 2

\* generateGeometry(params.frame, params.simulation): the frame triangle, then
\* the rear shock pivot
geometryOf(frameVertices, shock) ==
    IF ~shock.ok THEN Threw(shock.error)
    ELSE Returned([swingArmPivot |-> frameVertices[1],
                   headTubeBottom |-> frameVertices[2],
                   headTubeTop |-> frameVertices[3],
                   rearShockUpperPivot |-> shock.value[1]])

geometryFrom(frameVertices, params) ==
    geometryOf(frameVertices,
               triangleFromVerticesAndEdges(frameVertices[3], frameVertices[1],
                   params.frame.rearShockUpperPivotToHeadTubeTop,
                   params.frame.rearShockUpperPivotToFramePivot))

generateGeometry(params) ==
    IF ~FrameTriangle(params).ok THEN Threw(FrameTriangle(params).error)
    ELSE geometryFrom(FrameTriangle(params).value, params)

\* forkAxis = Vec2(headTubeTop - headTubeBottom); forkAxis.normalize()
forkAxisOf(geometry) ==
    normalize(Vec2(geometry.headTubeTop.x - geometry.headTubeBottom.x,
                   geometry.headTubeTop.y - geometry.headTubeBottom.y)).vec

\* world.createBody({type, position, angle})
createBody(W, type, pos, angle) ==
    [W EXCEPT !.nextId = @ + 1,
              !.bodies = [b \in (DOMAIN W.bodies) \cup {W.nextId + 1} |->
                            IF b = W.nextId + 1
                            THEN [type |-> type, pos |-> pos, angle |-> angle,
                                  fixtures |-> <<>>]
                            ELSE W.bodies[b]]]

\* the bodies object of createBodies when the last body made before it is n
bodiesAfter(n) ==
    [ground |-> n + 1, frame |-> n + 2, bottomFork |-> n + 3,
     frontWheel |-> n + 4, swingarm |-> n + 5, rearWheel |-> n + 6]

AllOf(wb) ==
    {wb.ground, wb.frame, wb.bottomFork, wb.frontWheel, wb.swingarm, wb.rearWheel}

\* the six world.createBody calls of createBodies
sixBodies(W, geometry, params, axis) ==
    createBody(createBody(createBody(createBody(createBody(createBody(W,
        "static", Vec2(0, GroundY), Angle0),
        "dynamic", geometry.swingArmPivot, Angle0),
        "dynamic", Along(geometry.headTubeTop, axis, params.frame.topForkTubeLength),
            ForkAngle(axis)),
        "dynamic", Along(Along(geometry.headTubeTop, axis, params.frame.topForkTubeLength),
                         axis, params.frame.bottomForkTubeLength), Angle0),
        "dynamic", Vec2(0, 0), Angle0),
        "dynamic", Vec2(params.frame.swingarmLength, 0), Angle0)

\* "Clear all existing fixtures"
noFixtures(W, wb) ==
    [W EXCEPT !.bodies = [b \in DOMAIN W.bodies |->
                            IF b \in AllOf(wb)
                            THEN [W.bodies[b] EXCEPT !.fixtures = <<>>]
                            ELSE W.bodies[b]]]

\* the eight createFixture calls of updateBodies
newFixtures(W, wb) ==
    createFixture(createFixture(createFixture(createFixture(createFixture(
    createFixture(createFixture(createFixture(W,
        wb.ground, Fixture("box", 3, CATEGORIES.GROUND, MASKS.GROUND, "#333333")),
        wb.frame, Fixture("polygon", 3, CATEGORIES.FRAME, MASKS.FRAME, "#333333")),
        wb.frame, Fixture("polygon", 3, CATEGORIES.FRAME, MASKS.FRAME, "#666666")),
        wb.frame, Fixture("polygon", 3, CATEGORIES.FRAME, MASKS.FRAME, "#4169E1")),
        wb.bottomFork, Fixture("polygon", 3, CATEGORIES.FRAME, MASKS.FRAME, "#3CB371")),
        wb.frontWheel, Fixture("circle", 7, CATEGORIES.WHEEL, MASKS.WHEEL, "#333333")),
        wb.swingarm, Fixture("polygon", 3, CATEGORIES.FRAME, MASKS.FRAME, "#333333")),
        wb.rearWheel, Fixture("circle", 7, CATEGORIES.WHEEL, MASKS.WHEEL, "#333333"))

\* "Clear existing joints": every joint of the world
noJoints(W) == [W EXCEPT !.joints = {}]

\* the bottom fork and the front wheel are moved to their places
placed(W, wb, params, geometry, axis) ==
    setPosition(
        setAngle(
            setPosition(W, wb.bottomFork,
                Along(geometry.headTubeTop, axis, params.frame.topForkTubeLength)),
            wb.bottomFork, ForkAngle(axis)),
        wb.frontWheel,
        Along(Along(geometry.headTubeTop, axis, params.frame.topForkTubeLength),
              axis, params.frame.bottomForkTubeLength))

forkPrismaticJoint(wb, params, geometry, axis) ==
    [JointBase("prismatic-joint", wb.frame, wb.bottomFork,
         Local(Along(geometry.headTubeTop, axis, params.frame.topForkTubeLength),
               geometry.swingArmPivot),
         Vec2(0, 0))
     EXCEPT !.enableLimit = TRUE, !.lowerTranslation = 0,
            !.upperTranslation = UpperTranslation, !.enableMotor = FALSE,
            !.localAxisA = Vec2(axis.x, axis.y)]

forkSpring(wb, params, geometry) ==
    [JointBase("distance-joint", wb.frame, wb.bottomFork,
         Local(geometry.headTubeBottom, geometry.swingArmPivot),
         Vec2(0, 0 - params.frame.bottomForkTubeLength))
     EXCEPT !.length = params.frame.bottomForkTubeLength
                       + params.frame.topForkTubeLength
                       - params.frame.headTubeLength.value,
            !.frequencyHz = params.simulation.forkSpringFrequency,
            !.dampingRatio = params.simulation.forkSpringDamping]

\* the five world.createJoint calls of updateBodies
newJoints(W, wb, params, geometry, axis) ==
    createJoint(createJoint(createJoint(createJoint(createJoint(W,
        forkPrismaticJoint(wb, params, geometry, axis)),
        forkSpring(wb, params, geometry)),
        JointBase("revolute-joint", wb.bottomFork, wb.frontWheel,
                  Vec2(0, 0 - params.frame.bottomForkTubeLength), Vec2(0, 0))),
        JointBase("revolute-joint", wb.frame, wb.swingarm, Vec2(0, 0), Vec2(0, 0))),
        JointBase("revolute-joint", wb.swingarm, wb.rearWheel,
                  Vec2(params.frame.swingarmLength, 0), Vec2(0, 0)))

\* updateBodies once generateGeometry has returned
refreshed(W, wb, params, geometry) ==
    newJoints(
        placed(noJoints(newFixtures(noFixtures(W, wb), wb)),
               wb, params, geometry, forkAxisOf(geometry)),
        wb, params, geometry, forkAxisOf(geometry))

\* variant: the joints made by earlier calls stay in the world
updateBodies_KeepsJoints(params, wb, W) ==
    IF wb = <<>> THEN [ok |-> TRUE, W |-> W]
    ELSE IF ~generateGeometry(params).ok THEN [ok |-> FALSE, W |-> W]
    ELSE [ok |-> TRUE,
          W |-> [refreshed(W, wb, params, generateGeometry(params).value)
                 EXCEPT !.joints = @ \cup W.joints]]

\* variant: the fixtures are cleared before the geometry is generated
updateBodies_ClearsFirst(params, wb, W) ==
    IF wb = <<>> THEN [ok |-> TRUE, W |-> W]
    ELSE IF ~generateGeometry(params).ok THEN [ok |-> FALSE, W |-> noFixtures(W, wb)]
    ELSE [ok |-> TRUE, W |-> refreshed(W, wb, params, generateGeometry(params).value)]

\* updateBodies(params, worldBodies, world): [ok, W]; ok = FALSE when
\* generateGeometry threw
updateBodies(params, wb, W) ==
    IF wb = <<>> THEN [ok |-> TRUE, W |-> W]
    ELSE IF ~generateGeometry(params).ok THEN [ok |-> FALSE, W |-> W]
    ELSE [ok |-> TRUE, W |-> refreshed(W, wb, params, generateGeometry(params).value)]

withBodies(updated, wb) ==
    [ok |-> updated.ok, W |-> updated.W, worldBodies |-> wb]

\* createBodies(geometry, params, world)
createBodies(geometry, params, W) ==
    withBodies(updateBodies(params, bodiesAfter(W.nextId),
                            sixBodies(W, geometry, params, forkAxisOf(geometry))),
               bodiesAfter(W.nextId))

\* createWorld of physics.js once the bodies are destroyed and worldBodies is
\* emptied
afterClear(params, emptied) ==
    IF ~generateGeometry(params).ok
    THEN [ok |-> FALSE, W |-> emptied, worldBodies |-> <<>>]
    ELSE createBodies(generateGeometry(params).value, params, emptied)

\* createWorld(params, world, render, worldBodies) of physics.js: every body of
\* the world is destroyed first
physicsCreateWorld(params, W) ==
    afterClear(params, [W EXCEPT !.bodies = <<>>, !.joints = {}])

MaxResets == 2

\* the values a slider is dragged to and a text box is given, in millimetres
SliderValues ==
    [swingArmPivotToHeadTubeBottomCenter |-> {600, 800, 1000},
     topForkTubeLength |-> {200, 300, 400}]
TextValues ==
    [swingArmPivotToHeadTubeBottomCenter |-> {100, 600, 800},
     topForkTubeLength |-> {100, 200, 300}]

SliderOf == [swingArmPivotToHeadTubeBottomCenter |-> "toBottom",
             topForkTubeLength |-> "top"]

DefaultSliders == [key \in DOMAIN Defaults |-> ValueMm(key)]

MainIdle ==
    UNCHANGED <<comps, components, mouseJoint, isRunning, moved, calls, lastCall,
                destroyLog, geo, frame, trace>>

Loaded(r) ==
    /\ bodies = r.W.bodies /\ joints = r.W.joints /\ nextId = r.W.nextId
    /\ worldBodies = r.worldBodies

\* the page after its load handler: initPhysics, createWorld with the default
\* parameters, the sliders at the default values
MainInit ==
    /\ Loaded(physicsCreateWorld(getDefaultParams,
                  World(MouseBody :> NewBody("static"), {}, MouseBody, <<>>)))
    /\ comps = <<>>
    /\ sliders = DefaultSliders
    /\ edit = NoEdit
    /\ IdleSim /\ IdleTree /\ IdleGeo

Edited(kind, ok) ==
    edit' = [kind |-> kind, ok |-> ok, tick |-> 1 - edit.tick, resets |-> edit.resets]

\* the slider's input handler after updateBodies returned or threw: on a throw
\* the slider goes back to the value it was built with
AfterUpdate(kind, key, value, r) ==
    /\ bodies' = r.W.bodies /\ joints' = r.W.joints /\ nextId' = r.W.nextId
    /\ sliders' = [sliders EXCEPT ![key] = IF r.ok THEN value ELSE ValueMm(key)]
    /\ Edited(kind, r.ok)
    /\ UNCHANGED worldBodies /\ MainIdle

\* input event of a slider
SliderInput(name, value) ==
    AfterUpdate("slider", SliderOf[name], value,
        updateBodies(getCurrentParams([sliders EXCEPT ![SliderOf[name]] = value]),
                     worldBodies, TheWorld))

\* Enter in a text box
TextInput(name, value) ==
    IF value < SliderMin(SliderOf[name]) \/ value > SliderMax(SliderOf[name])
    THEN /\ Edited("text", FALSE)
         /\ UNCHANGED <<bodies, joints, nextId, worldBodies, sliders>> /\ MainIdle
    ELSE AfterUpdate("text", SliderOf[name], value,
            updateBodies(getCurrentParams([sliders EXCEPT ![SliderOf[name]] = value]),
                         worldBodies, TheWorld))

AfterReset(r) ==
    /\ bodies' = r.W.bodies /\ joints' = r.W.joints /\ nextId' = r.W.nextId
    /\ worldBodies' = r.worldBodies
    /\ edit' = [kind |-> "reset", ok |-> r.ok, tick |-> 1 - edit.tick,
                resets |-> edit.resets + 1]
    /\ UNCHANGED sliders /\ MainIdle

\* click on the reset button
Reset ==
    /\ edit.resets < MaxResets
    /\ AfterReset(physicsCreateWorld(getDefaultParams, TheWorld))

MainNext ==
    \/ \E name \in DOMAIN SliderValues : \E value \in SliderValues[name] :
          SliderInput(name, value)
    \/ \E name \in DOMAIN TextValues : \E value \in TextValues[name] :
          TextInput(name, value)
    \/ Reset

MainSpec == MainInit /\ [][MainNext]_vars

\* the bodies of the rig
RigOf(wb) == {wb.frame, wb.bottomFork, wb.frontWheel, wb.swingarm, wb.rearWheel}

\* an edit or a reset was carried out in this step
Carried == edit' # edit /\ edit'.ok

====
